---- MODULE Spec2Model ----
(***************************************************************************)
(* Soft-delete extension of the Prisma client (scripts/prisma-client.ts):  *)
(* the scope context, the where / selection rewriters, the root operation  *)
(* scoper, the delete transformer and the override views, over a small     *)
(* model of the host query engine.                                         *)
(***************************************************************************)
EXTENDS Integers, Sequences, FiniteSets, TLC

(* ------------------------------ bounds -------------------------------- *)
\* rows of User in the store universe
MaxUsers == 2
\* rows of Post in the store universe
MaxPosts == 1
\* the clock runs 1..MaxClock
MaxClock == 2
\* call chains running concurrently
MaxChains == 2
\* nesting of interactive $transaction callbacks within one chain
MaxDepth == 1
\* combinators and relation filters nested in one where tree
MaxNest == 2
\* calls made with one and the same argument object
MaxRepeat == 2
\* posts of one user, where the selections of relations are followed
MaxOwned == 2
MaxBatch == 2

(* --------------------------- JavaScript values ------------------------ *)
\* Every plain object and every array is a node with an identity; `own` says
\* whose node it is: "caller" for a node of an object the caller holds,
\* "fresh" for a node the extension allocated.
Null == [t |-> "null"]
Undef == [t |-> "undef"]
Str(s) == [t |-> "str", v |-> s]
Bool(b) == [t |-> "bool", v |-> b]
DateV(n) == [t |-> "date", v |-> n]
Num(n) == [t |-> "num", v |-> n]
Obj(own, f) == [t |-> "obj", own |-> own, v |-> f]
Arr(own, s) == [t |-> "arr", own |-> own, v |-> s]
NoKeys == <<>>
FObj(f) == Obj("fresh", f)
FArr(s) == Arr("fresh", s)
COb(f) == Obj("caller", f)
CAr(s) == Arr("caller", s)

Has(o, k) == o.t = "obj" /\ k \in DOMAIN o.v
\* o[k], undefined when the key is absent or o is no object
Get(o, k) == IF Has(o, k) THEN o.v[k] ELSE Undef
\* o[k] = x on the node o itself (its identity is kept)
Put(o, k, x) == [o EXCEPT !.v = (k :> x) @@ o.v]

\* deep equality, identities ignored (assert.deepEqual)
RECURSIVE Plain(_)
Plain(x) ==
  IF x.t = "obj" THEN [t |-> "obj", v |-> [k \in DOMAIN x.v |-> Plain(x.v[k])]]
  ELSE IF x.t = "arr" THEN [t |-> "arr", v |-> [i \in DOMAIN x.v |-> Plain(x.v[i])]]
  ELSE x
DeepEqual(x, y) == Plain(x) = Plain(y)

\* the nodes of x that are the caller's
RECURSIVE HasCallerNode(_)
HasCallerNode(x) ==
  IF x.t \in {"obj", "arr"}
  THEN x.own = "caller" \/ \E k \in DOMAIN x.v : HasCallerNode(x.v[k])
  ELSE FALSE

(* ------------------------------ schema -------------------------------- *)
SOFT_DELETE_FIELD == "deletedAt"

\* Prisma.dmmf.datamodel.models: User and Post carry deletedAt, Profile (one
\* per User) and Comment (many per Post) do not. A relation field with fk set
\* is the side holding the foreign key (relationFromFields).
Scalar(n, ty) == [name |-> n, kind |-> "scalar", isList |-> FALSE, type |-> ty, fk |-> FALSE]
Relation(n, list, ty, fk) == [name |-> n, kind |-> "object", isList |-> list, type |-> ty, fk |-> fk]
dmmfModels ==
  { [name |-> "User",
     fields |-> { Scalar("id", "Int"), Scalar("email", "String"), Scalar("name", "String"),
                  Scalar("deletedAt", "DateTime"),
                  Relation("posts", TRUE, "Post", FALSE),
                  Relation("profile", FALSE, "Profile", FALSE) }],
    [name |-> "Post",
     fields |-> { Scalar("id", "Int"), Scalar("title", "String"),
                  Scalar("deletedAt", "DateTime"),
                  Relation("author", FALSE, "User", TRUE),
                  Relation("comments", TRUE, "Comment", FALSE) }],
    [name |-> "Profile",
     fields |-> { Scalar("id", "Int"), Scalar("bio", "String"),
                  Relation("user", FALSE, "User", TRUE) }],
    [name |-> "Comment",
     fields |-> { Scalar("id", "Int"), Scalar("text", "String"),
                  Relation("post", FALSE, "Post", TRUE) }] }

ModelNames == { m.name : m \in dmmfModels }
ModelOf(n) == CHOOSE m \in dmmfModels : m.name = n

\* every model taken as soft-deletable, whatever fields it declares
softDeleteModels_all == { m.name : m \in dmmfModels }

\* buildModelMetadata().softDeleteModels
softDeleteModels ==
  { m.name : m \in { x \in dmmfModels : \E f \in x.fields : f.name = SOFT_DELETE_FIELD } }

\* buildModelMetadata().relationFieldsByModel
relationFieldsByModel ==
  [ n \in ModelNames |->
      LET rel == { f \in ModelOf(n).fields : f.kind = "object" }
      IN [ fn \in { f.name : f \in rel } |->
             LET f == CHOOSE g \in rel : g.name = fn
             IN [isList |-> f.isList, targetModel |-> f.type] ] ]

IsRelation(modelName, key) == key \in DOMAIN relationFieldsByModel[modelName]

\* the root-scoped operations with upsert among them
ROOT_SCOPED_OPERATIONS_upsert ==
  {"aggregate", "count", "findFirst", "findFirstOrThrow", "findMany",
   "findUnique", "findUniqueOrThrow", "groupBy", "upsert"}

\* the root-scoped operations with the updates among them
ROOT_SCOPED_OPERATIONS_updates ==
  {"aggregate", "count", "findFirst", "findFirstOrThrow", "findMany",
   "findUnique", "findUniqueOrThrow", "groupBy", "update", "updateMany"}

ROOT_SCOPED_OPERATIONS ==
  {"aggregate", "count", "findFirst", "findFirstOrThrow", "findMany",
   "findUnique", "findUniqueOrThrow", "groupBy"}
UNIQUE_READ_OPERATIONS == {"findUnique", "findUniqueOrThrow"}
LOGICAL_OPERATORS == {"AND", "OR", "NOT"}

(* ------------------------- the tree rewriters ------------------------- *)
isPlainObject(value) == value.t = "obj"

RECURSIVE deepCloneValue(_)
deepCloneValue(value) ==
  IF value.t = "arr" THEN FArr([i \in DOMAIN value.v |-> deepCloneValue(value.v[i])])
  ELSE IF isPlainObject(value)
       THEN FObj([k \in DOMAIN value.v |-> deepCloneValue(value.v[k])])
       ELSE value

NotDeleted == FObj(SOFT_DELETE_FIELD :> Null)

\* the merge written as a spread, { deletedAt: null, ...where }
mergeDeletedAtWithAnd_spread(where) ==
  IF isPlainObject(where) THEN FObj(where.v @@ (SOFT_DELETE_FIELD :> Null)) ELSE NotDeleted

mergeDeletedAtWithAnd(where) ==
  IF where.t \in {"null", "undef"}
  THEN NotDeleted
  ELSE FObj("AND" :> FArr(<<where, NotDeleted>>))

\* the unique lookups wrapped as the other reads are
mergeDeletedAtForUniqueWhere_and(where) ==
  IF where.t \in {"null", "undef"} THEN FObj(SOFT_DELETE_FIELD :> Null)
  ELSE FObj("AND" :> FArr(<<where, FObj(SOFT_DELETE_FIELD :> Null)>>))

mergeDeletedAtForUniqueWhere(where) ==
  LET uniqueWhere == IF isPlainObject(where) THEN where.v ELSE NoKeys
  IN FObj((SOFT_DELETE_FIELD :> Null) @@ uniqueWhere)

RECURSIVE scopeWhere(_, _)
RECURSIVE scopeLogicalOperator(_, _)
RECURSIVE scopeListRelationFilter(_, _)
RECURSIVE scopeToOneRelationFilter(_, _)

scopeLogicalOperator_clone(modelName, value) == deepCloneValue(value)

scopeLogicalOperator(modelName, value) ==
  IF value.t = "arr"
  THEN FArr([i \in DOMAIN value.v |-> scopeWhere(modelName, value.v[i])])
  ELSE IF isPlainObject(value) THEN scopeWhere(modelName, value)
       ELSE deepCloneValue(value)

\* every tightened as some and none are
scopeListRelationFilter_and(targetModel, relationFilter) ==
  FObj([ operator \in DOMAIN relationFilter.v |->
    IF operator \notin {"some", "none", "every"}
    THEN deepCloneValue(relationFilter.v[operator])
    ELSE IF targetModel \notin softDeleteModels
         THEN scopeWhere(targetModel, relationFilter.v[operator])
         ELSE mergeDeletedAtWithAnd(scopeWhere(targetModel, relationFilter.v[operator])) ])

scopeListRelationFilter(targetModel, relationFilter) ==
  FObj([ operator \in DOMAIN relationFilter.v |->
    IF operator \notin {"some", "none", "every"}
    THEN deepCloneValue(relationFilter.v[operator])
    ELSE LET scopedValue == scopeWhere(targetModel, relationFilter.v[operator])
         IN IF targetModel \notin softDeleteModels THEN scopedValue
            ELSE IF operator = "every"
                 THEN FObj("OR" :> FArr(<<FObj(SOFT_DELETE_FIELD :> FObj("not" :> Null)),
                                          IF isPlainObject(scopedValue) THEN scopedValue
                                          ELSE FObj(NoKeys)>>))
                 ELSE mergeDeletedAtWithAnd(scopedValue) ])

\* isNot tightened as is is
scopeToOneRelationFilter_both(targetModel, relationFilter) ==
  IF Has(relationFilter, "is") \/ Has(relationFilter, "isNot")
  THEN FObj([ k \in DOMAIN relationFilter.v |->
         IF k \in {"is", "isNot"}
         THEN IF targetModel \in softDeleteModels
              THEN mergeDeletedAtWithAnd(scopeWhere(targetModel, relationFilter.v[k]))
              ELSE scopeWhere(targetModel, relationFilter.v[k])
         ELSE deepCloneValue(relationFilter.v[k]) ])
  ELSE IF targetModel \notin softDeleteModels
       THEN scopeWhere(targetModel, relationFilter)
       ELSE mergeDeletedAtWithAnd(scopeWhere(targetModel, relationFilter))

scopeToOneRelationFilter(targetModel, relationFilter) ==
  IF Has(relationFilter, "is") \/ Has(relationFilter, "isNot")
  THEN FObj([ k \in DOMAIN relationFilter.v |->
         IF k = "is"
         THEN LET scopedIs == scopeWhere(targetModel, relationFilter.v[k])
              IN IF targetModel \in softDeleteModels
                 THEN mergeDeletedAtWithAnd(scopedIs) ELSE scopedIs
         ELSE IF k = "isNot" THEN scopeWhere(targetModel, relationFilter.v[k])
              ELSE deepCloneValue(relationFilter.v[k]) ])
  ELSE LET scopedShorthand == scopeWhere(targetModel, relationFilter)
       IN IF targetModel \notin softDeleteModels
          THEN (IF isPlainObject(scopedShorthand) THEN scopedShorthand ELSE FObj(NoKeys))
          ELSE mergeDeletedAtWithAnd(scopedShorthand)

scopeWhere(modelName, where) ==
  IF ~isPlainObject(where) THEN deepCloneValue(where)
  ELSE FObj([ key \in DOMAIN where.v |->
         LET value == where.v[key]
         IN IF key \in LOGICAL_OPERATORS THEN scopeLogicalOperator(modelName, value)
            ELSE IF ~IsRelation(modelName, key) \/ ~isPlainObject(value)
                 THEN deepCloneValue(value)
                 ELSE LET relation == relationFieldsByModel[modelName][key]
                      IN IF relation.isList
                         THEN scopeListRelationFilter(relation.targetModel, value)
                         ELSE scopeToOneRelationFilter(relation.targetModel, value) ])

\* `where` present and not undefined on an argument object
hasWhere(o) == Has(o, "where") /\ o.v["where"] # Undef

scopeCountSelection(modelName, relationContainer) ==
  LET countSelection == Get(relationContainer, "_count")
      countSelect == Get(countSelection, "select")
  IN IF ~isPlainObject(countSelection) \/ ~isPlainObject(countSelect)
     THEN relationContainer
     ELSE LET scoped ==
                [ fieldName \in DOMAIN countSelect.v |->
                    LET fieldSelection == countSelect.v[fieldName]
                    IN IF ~IsRelation(modelName, fieldName) THEN fieldSelection
                       ELSE LET relation == relationFieldsByModel[modelName][fieldName]
                            IN IF ~relation.isList \/ relation.targetModel \notin softDeleteModels
                               THEN fieldSelection
                               ELSE IF fieldSelection = Bool(TRUE)
                                    THEN FObj("where" :> NotDeleted)
                                    ELSE IF ~isPlainObject(fieldSelection) THEN fieldSelection
                                    ELSE Put(fieldSelection, "where",
                                             mergeDeletedAtWithAnd(
                                               scopeWhere(relation.targetModel,
                                                          Get(fieldSelection, "where")))) ]
          IN Put(relationContainer, "_count",
                 Put(countSelection, "select", [countSelect EXCEPT !.v = scoped]))

\* The selection rewriter works in place on the tree it is given: a node it
\* assigns to keeps its identity, an object literal it stores is a fresh node.
RECURSIVE scopeNestedRelationSelections(_, _)
RECURSIVE scopeRelationSelection(_, _, _)
RECURSIVE scopeRelationContainer(_, _)
RECURSIVE scopeSelectionKey(_, _, _)

\* a boolean flag and a nested object left as the caller wrote them
scopeRelationSelection_kept(modelName, relationName, relationSelection) ==
  relationSelection

\* the predicate given to every selection of a soft-deletable target, to-one
\* or list
scopeRelationSelection_all(modelName, relationName, relationSelection) ==
  IF ~IsRelation(modelName, relationName) THEN relationSelection
  ELSE LET relation == relationFieldsByModel[modelName][relationName]
           scopedAny == relation.targetModel \in softDeleteModels
       IN IF relationSelection = Bool(TRUE)
          THEN (IF scopedAny THEN FObj("where" :> NotDeleted) ELSE relationSelection)
          ELSE IF ~isPlainObject(relationSelection) THEN relationSelection
          ELSE scopeNestedRelationSelections(
                 relation.targetModel,
                 IF scopedAny
                 THEN Put(relationSelection, "where",
                          mergeDeletedAtWithAnd(
                            IF hasWhere(relationSelection)
                            THEN scopeWhere(relation.targetModel, relationSelection.v["where"])
                            ELSE Undef))
                 ELSE IF hasWhere(relationSelection)
                      THEN Put(relationSelection, "where",
                               scopeWhere(relation.targetModel, relationSelection.v["where"]))
                      ELSE relationSelection)

\* one entry of the loop over Object.entries(relationContainer)
scopeRelationSelection(modelName, relationName, relationSelection) ==
  IF ~IsRelation(modelName, relationName) THEN relationSelection
  ELSE LET relation == relationFieldsByModel[modelName][relationName]
           scopedList == relation.isList /\ relation.targetModel \in softDeleteModels
       IN IF relationSelection = Bool(TRUE)
          THEN (IF scopedList THEN FObj("where" :> NotDeleted) ELSE relationSelection)
          ELSE IF ~isPlainObject(relationSelection) THEN relationSelection
          ELSE scopeNestedRelationSelections(
                 relation.targetModel,
                 IF scopedList
                 THEN Put(relationSelection, "where",
                          mergeDeletedAtWithAnd(
                            IF hasWhere(relationSelection)
                            THEN scopeWhere(relation.targetModel, relationSelection.v["where"])
                            ELSE Undef))
                 ELSE IF hasWhere(relationSelection)
                      THEN Put(relationSelection, "where",
                               scopeWhere(relation.targetModel, relationSelection.v["where"]))
                      ELSE relationSelection)

\* the loop over the entries of one container, its _count scoped before
scopeRelationContainer(modelName, relationContainer) ==
  [relationContainer EXCEPT !.v =
     [ relationName \in DOMAIN relationContainer.v |->
         scopeRelationSelection(modelName, relationName, relationContainer.v[relationName]) ]]

\* one round of the loop over ["include", "select"]
scopeSelectionKey(modelName, args, key) ==
  IF isPlainObject(Get(args, key))
  THEN Put(args, key,
           scopeRelationContainer(modelName, scopeCountSelection(modelName, args.v[key])))
  ELSE args

scopeNestedRelationSelections(modelName, args) ==
  scopeSelectionKey(modelName, scopeSelectionKey(modelName, args, "include"), "select")

\* scopeReadArgs, its where scoped for relation filters
scopeArgsWhere(modelName, scopedArgs) ==
  IF hasWhere(scopedArgs)
  THEN Put(scopedArgs, "where", scopeWhere(modelName, scopedArgs.v["where"]))
  ELSE scopedArgs

\* the root scoping leaving the unique lookups alone
scopeRootWhere_many(modelName, operation, scopedArgs) ==
  IF modelName \notin softDeleteModels
     \/ operation \notin ROOT_SCOPED_OPERATIONS \ UNIQUE_READ_OPERATIONS
  THEN scopedArgs
  ELSE Put(scopedArgs, "where",
           mergeDeletedAtWithAnd(
             IF hasWhere(scopedArgs) THEN scopedArgs.v["where"] ELSE Undef))

\* scopeReadArgs, the root scoping of the rewritten tree
scopeRootWhere(modelName, operation, scopedArgs) ==
  IF modelName \notin softDeleteModels \/ operation \notin ROOT_SCOPED_OPERATIONS
  THEN scopedArgs
  ELSE Put(scopedArgs, "where",
           IF operation \in UNIQUE_READ_OPERATIONS
           THEN mergeDeletedAtForUniqueWhere(
                  IF hasWhere(scopedArgs) THEN scopedArgs.v["where"] ELSE Undef)
           ELSE mergeDeletedAtWithAnd(
                  IF hasWhere(scopedArgs) THEN scopedArgs.v["where"] ELSE Undef))

\* scopeReadArgs forwarding the three keys it scopes and no other
scopeReadArgs_picked(modelName, operation, args) ==
  LET scoped == scopeRootWhere(modelName, operation,
                  scopeNestedRelationSelections(modelName,
                    scopeArgsWhere(modelName,
                      IF isPlainObject(args) THEN deepCloneValue(args) ELSE FObj(NoKeys))))
  IN FObj([k \in DOMAIN scoped.v \cap {"where", "include", "select"} |-> scoped.v[k]])

\* scopeReadArgs working on a spread copy of the caller's tree, { ...args }
scopeReadArgs_spread(modelName, operation, args) ==
  scopeRootWhere(modelName, operation,
    scopeNestedRelationSelections(modelName,
      scopeArgsWhere(modelName,
        IF isPlainObject(args) THEN FObj(args.v) ELSE FObj(NoKeys))))

scopeReadArgs(modelName, operation, args) ==
  scopeRootWhere(modelName, operation,
    scopeNestedRelationSelections(modelName,
      scopeArgsWhere(modelName,
        IF isPlainObject(args) THEN deepCloneValue(args) ELSE FObj(NoKeys))))

(* --------------------------- the scope context ------------------------ *)
\* An AsyncLocalStorage store: undefined, or a SoftDeleteContext.
NoStore == <<>>
StoreOf(context) == <<context>>
DefaultContext == [hardDelete |-> FALSE, includeDeleted |-> FALSE]

getSoftDeleteContext(store) == IF store = NoStore THEN DefaultContext ELSE store[1]

\* The store under which runWithSoftDeleteContext(context, fn) runs fn, called
\* where the current store is `store`; context is a Partial<SoftDeleteContext>.
\* the override taken alone, the flags it does not name reset
runWithSoftDeleteContext_alone(context, store) ==
  StoreOf([ k \in {"hardDelete", "includeDeleted"} |->
              IF k \in DOMAIN context THEN context[k] ELSE FALSE ])

runWithSoftDeleteContext(context, store) ==
  LET current == getSoftDeleteContext(store)
  IN StoreOf([ k \in {"hardDelete", "includeDeleted"} |->
                 IF k \in DOMAIN context THEN context[k] ELSE current[k] ])

withDeletedContext == ("includeDeleted" :> TRUE)
\* the hard-delete override naming its own flag only
hardDeleteContext_only == ("hardDelete" :> TRUE)
hardDeleteContext == ("hardDelete" :> TRUE) @@ ("includeDeleted" :> TRUE)

\* The context a view obtained by the chain of entry points `via` runs its
\* function members under: <<>> is the client itself, and an entry point read
\* from a view gives the view of that entry point on the same target.
ViewContext(via) ==
  IF via[Len(via)] = "hardDelete" THEN hardDeleteContext ELSE withDeletedContext

\* a view that is the client itself, its members run where they are called
CallStore_client(via, store) == store

\* The store a member function called through `via` runs under (the get trap
\* of getContextProxy), called where the current store is `store`.
CallStore(via, store) ==
  IF via = <<>> THEN store ELSE runWithSoftDeleteContext(ViewContext(via), store)

(* -------------------------- the write transformer --------------------- *)
\* the data in which a deletedAt of the caller's survives
buildSoftDeleteUpdateData_under(existingData, clock) ==
  IF isPlainObject(existingData) /\ Has(existingData, SOFT_DELETE_FIELD)
  THEN deepCloneValue(existingData)
  ELSE Put(IF isPlainObject(existingData) THEN deepCloneValue(existingData)
           ELSE FObj(NoKeys),
           SOFT_DELETE_FIELD, DateV(clock))

buildSoftDeleteUpdateData(existingData, clock) ==
  Put(IF isPlainObject(existingData) THEN deepCloneValue(existingData) ELSE FObj(NoKeys),
      SOFT_DELETE_FIELD, DateV(clock))

\* the transformer forwarding every delete to the physical delete
handleDeleteOperation_physical(modelName, operation, args, store, clock) ==
  [op |-> operation,
   args |-> IF isPlainObject(args) THEN deepCloneValue(args) ELSE FObj(NoKeys)]

\* the transformer converting every delete, whatever the context
handleDeleteOperation_convert(modelName, operation, args, store, clock) ==
  LET normalizedArgs == IF isPlainObject(args) THEN deepCloneValue(args) ELSE FObj(NoKeys)
  IN [op |-> IF operation = "delete" THEN "update" ELSE "updateMany",
      args |-> FObj(("data" :> buildSoftDeleteUpdateData(Get(normalizedArgs, "data"), clock))
                    @@ normalizedArgs.v)]

\* The call handleDeleteOperation makes: the operation and its arguments.
handleDeleteOperation(modelName, operation, args, store, clock) ==
  LET runtimeContext == getSoftDeleteContext(store)
      normalizedArgs == IF isPlainObject(args) THEN deepCloneValue(args) ELSE FObj(NoKeys)
  IN IF runtimeContext.hardDelete \/ modelName \notin softDeleteModels
     THEN [op |-> operation, args |-> normalizedArgs]
     ELSE [op |-> IF operation = "delete" THEN "update" ELSE "updateMany",
           args |-> FObj(("data" :> buildSoftDeleteUpdateData(Get(normalizedArgs, "data"), clock))
                         @@ normalizedArgs.v)]

\* the error thrown when the parent delegate lacks the operation
Unsupported(modelName, operation) ==
  "Model '" \o modelName \o "' does not support " \o operation \o "."

\* the transformer updating where the parent delegate cannot delete
handleDeleteOperationOn_fallback(parentDelegate, modelName, operation, args, store, clock) ==
  IF operation \in parentDelegate
  THEN handleDeleteOperation(modelName, operation, args, store, clock)
  ELSE handleDeleteOperation_convert(modelName, operation, args, store, clock)

\* handleDeleteOperation where the parent delegate exposes the operations
\* parentDelegate: the call it makes, or the error it throws (op "throw")
handleDeleteOperationOn(parentDelegate, modelName, operation, args, store, clock) ==
  IF /\ getSoftDeleteContext(store).hardDelete \/ modelName \notin softDeleteModels
     /\ operation \notin parentDelegate
  THEN [op |-> "throw", args |-> Undef]
  ELSE handleDeleteOperation(modelName, operation, args, store, clock)

\* The model-level call of the extended client: delete and deleteMany are the
\* methods of the soft-delete-write-transform extension, the rest the host's.
modelCall(modelName, operation, args, store, clock) ==
  IF operation \in {"delete", "deleteMany"}
  THEN handleDeleteOperation(modelName, operation, args, store, clock)
  ELSE [op |-> operation, args |-> args]

\* the hook scoping every call, whatever the context
allOperations_always(modelName, operation, args, store) ==
  scopeReadArgs(modelName, operation, args)

\* query.$allModels.$allOperations: the arguments handed to query(...)
allOperations(modelName, operation, args, store) ==
  IF getSoftDeleteContext(store).includeDeleted
  THEN args
  ELSE scopeReadArgs(modelName, operation, args)

\* The caller's object once the extension has worked on `worked`, a tree built
\* from it: a node of `worked` that is still the caller's node is that very
\* node, so the caller sees what was assigned to it.
RECURSIVE CallerAfter(_, _)
CallerAfter(orig, worked) ==
  IF worked.t \in {"obj", "arr"} /\ worked.own = "caller" THEN worked
  ELSE IF orig.t \in {"obj", "arr"} /\ worked.t = orig.t
       THEN [orig EXCEPT !.v = [ k \in DOMAIN orig.v |->
                                   IF k \in DOMAIN worked.v
                                   THEN CallerAfter(orig.v[k], worked.v[k])
                                   ELSE orig.v[k] ]]
       ELSE orig

(* --------------------------- the host engine -------------------------- *)
\* The store: a set of rows. A row carries its scalar fields as values and, in
\* `author`, the id of the row its foreign key points to (a Post's author, a
\* Profile's user, a Comment's post; 0 for a User).
UserIds == 1..MaxUsers
PostIds == 1..MaxPosts
OwnedIds == 1..MaxOwned
Clock == 1..MaxClock
Names == {"n0", "n1"}

UserRow(i, deletedAt, name) ==
  [model |-> "User", id |-> i, author |-> 0,
   f |-> ("id" :> Num(i)) @@ ("email" :> Str(ToString(i))) @@ ("name" :> Str(name))
         @@ (SOFT_DELETE_FIELD :> deletedAt)]
PostRow(i, deletedAt, author) ==
  [model |-> "Post", id |-> i, author |-> author,
   f |-> ("id" :> Num(i)) @@ ("title" :> Str(ToString(i))) @@ (SOFT_DELETE_FIELD :> deletedAt)]
ProfileRow(i, user) ==
  [model |-> "Profile", id |-> i, author |-> user,
   f |-> ("id" :> Num(i)) @@ ("bio" :> Str(ToString(i)))]
CommentRow(i, post) ==
  [model |-> "Comment", id |-> i, author |-> post,
   f |-> ("id" :> Num(i)) @@ ("text" :> Str(ToString(i)))]

IsDeleted(row) == SOFT_DELETE_FIELD \in DOMAIN row.f /\ row.f[SOFT_DELETE_FIELD] # Null
RowsOf(store, modelName) == { r \in store : r.model = modelName }
Ids(rows) == { <<r.model, r.id>> : r \in rows }

\* the rows a relation field of `row` leads to
Related(store, row, modelName, fieldName) ==
  LET field == CHOOSE f \in ModelOf(modelName).fields : f.name = fieldName
  IN IF field.fk
     THEN { t \in RowsOf(store, field.type) : t.id = row.author }
     ELSE { t \in RowsOf(store, field.type) : t.author = row.id }

RECURSIVE ScalarMatches(_, _)
ScalarMatches(fieldValue, cond) ==
  IF cond.t = "undef" THEN TRUE
  ELSE IF cond.t = "obj"
       THEN \A k \in DOMAIN cond.v :
              IF k = "not" THEN ~ScalarMatches(fieldValue, cond.v[k])
              ELSE IF k = "equals" THEN ScalarMatches(fieldValue, cond.v[k])
              ELSE TRUE
       ELSE fieldValue = cond

\* whether `row` of modelName satisfies the filter tree `where`
RECURSIVE Matches(_, _, _, _)
Matches(store, modelName, where, row) ==
  IF ~isPlainObject(where) THEN TRUE
  ELSE \A key \in DOMAIN where.v :
    LET value == where.v[key]
        all(x) == IF x.t = "arr" THEN \A i \in DOMAIN x.v : Matches(store, modelName, x.v[i], row)
                  ELSE Matches(store, modelName, x, row)
        any(x) == IF x.t = "arr" THEN \E i \in DOMAIN x.v : Matches(store, modelName, x.v[i], row)
                  ELSE Matches(store, modelName, x, row)
    IN IF value.t = "undef" THEN TRUE
       ELSE IF key = "AND" THEN all(value)
       ELSE IF key = "OR" THEN any(value)
       ELSE IF key = "NOT" THEN ~any(value)
       ELSE IF IsRelation(modelName, key)
       THEN LET relation == relationFieldsByModel[modelName][key]
                related == Related(store, row, modelName, key)
                hit(sub) == { r \in related : Matches(store, relation.targetModel, sub, r) }
            IN IF ~isPlainObject(value) THEN (value = Null /\ related = {})
               ELSE IF relation.isList
               THEN \A operator \in DOMAIN value.v :
                      IF operator = "some" THEN hit(value.v[operator]) # {}
                      ELSE IF operator = "none" THEN hit(value.v[operator]) = {}
                      ELSE IF operator = "every" THEN hit(value.v[operator]) = related
                      ELSE TRUE
               ELSE IF Has(value, "is") \/ Has(value, "isNot")
               THEN \A operator \in DOMAIN value.v :
                      IF operator = "is"
                      THEN (IF value.v[operator] = Null THEN related = {}
                            ELSE hit(value.v[operator]) # {})
                      ELSE IF operator = "isNot"
                      THEN (IF value.v[operator] = Null THEN related # {}
                            ELSE hit(value.v[operator]) = {})
                      ELSE TRUE
               ELSE hit(value) # {}
       ELSE key \in DOMAIN row.f /\ ScalarMatches(row.f[key], value)

UNIQUE_FIELDS == [ n \in ModelNames |-> IF n = "User" THEN {"id", "email"} ELSE {"id"} ]
UNIQUE_WHERE_OPERATIONS == UNIQUE_READ_OPERATIONS \cup {"update", "delete", "upsert"}
DATA_OPERATIONS == {"update", "updateMany"}
REMOVE_OPERATIONS == {"delete", "deleteMany"}
THROW_OPERATIONS == {"findFirstOrThrow", "findUniqueOrThrow", "update", "delete"}
FIRST_OPERATIONS ==
  {"findFirst", "findFirstOrThrow", "findUnique", "findUniqueOrThrow", "update", "delete",
   "upsert"}

\* the engine's validation of an argument tree
ValidArgs(modelName, operation, args) ==
  /\ args.t \in {"obj", "undef"}
  /\ Get(args, "where").t \in {"obj", "undef"}
  /\ operation \in UNIQUE_WHERE_OPERATIONS =>
       \E k \in UNIQUE_FIELDS[modelName] :
          Has(Get(args, "where"), k) /\ Get(Get(args, "where"), k).t \in {"str", "num"}
  /\ Has(args, "data") <=> operation \in DATA_OPERATIONS \cup {"create"}
  /\ operation \in DATA_OPERATIONS \cup {"create"} => isPlainObject(Get(args, "data"))
  /\ operation = "upsert" =>
       isPlainObject(Get(args, "update")) /\ isPlainObject(Get(args, "create"))
  /\ ~(isPlainObject(Get(args, "include")) /\ isPlainObject(Get(args, "select")))

\* a row with the scalar fields of `data` assigned
Assign(row, data) ==
  [row EXCEPT !.f = [ k \in DOMAIN row.f |->
                        IF Has(data, k) /\ data.v[k] # Undef THEN data.v[k] ELSE row.f[k] ]]

First(rows) == IF rows = {} THEN {}
               ELSE { CHOOSE r \in rows : \A q \in rows : r.id <= q.id }

\* What the engine returns beside a row for the selections of `args`: the rows
\* it fetches through the relations selected, at every depth, and the counts of
\* _count. An item names the row it hangs on and the relation field; `row` is
\* the fetched row (the row counted for, in a count) and `n` the count.
RECURSIVE Selected(_, _, _, _)
Fetched(store, modelName, row, fieldName, selection) ==
  LET relation == relationFieldsByModel[modelName][fieldName]
      related == Related(store, row, modelName, fieldName)
      kept == IF isPlainObject(selection)
              THEN { r \in related :
                       Matches(store, relation.targetModel, Get(selection, "where"), r) }
              ELSE related
  IN { [kind |-> "row", model |-> modelName, id |-> row.id, field |-> fieldName,
        list |-> relation.isList, row |-> r, n |-> 0] : r \in kept }
     \cup UNION { Selected(store, relation.targetModel, selection, r) : r \in kept }

Counted(store, modelName, row, countSelection) ==
  LET lists == { fn \in DOMAIN relationFieldsByModel[modelName] :
                   relationFieldsByModel[modelName][fn].isList }
      count(fn, rows) == [kind |-> "count", model |-> modelName, id |-> row.id,
                          field |-> fn, list |-> TRUE, row |-> row, n |-> Cardinality(rows)]
      select == Get(countSelection, "select")
  IN IF countSelection = Bool(TRUE)
     THEN { count(fn, Related(store, row, modelName, fn)) : fn \in lists }
     ELSE IF ~isPlainObject(select) THEN {}
     ELSE { count(fn, { r \in Related(store, row, modelName, fn) :
                          Matches(store, relationFieldsByModel[modelName][fn].targetModel,
                                  Get(select.v[fn], "where"), r) }) :
            fn \in { g \in lists \cap DOMAIN select.v :
                       select.v[g] = Bool(TRUE) \/ isPlainObject(select.v[g]) } }

SelectedIn(store, modelName, row, container) ==
  IF ~isPlainObject(container) THEN {}
  ELSE UNION { IF name = "_count"
               THEN Counted(store, modelName, row, container.v[name])
               ELSE IF IsRelation(modelName, name)
                       /\ (container.v[name] = Bool(TRUE) \/ isPlainObject(container.v[name]))
                    THEN Fetched(store, modelName, row, name, container.v[name])
                    ELSE {} : name \in DOMAIN container.v }

Selected(store, modelName, args, row) ==
  SelectedIn(store, modelName, row, Get(args, "include"))
  \cup SelectedIn(store, modelName, row, Get(args, "select"))

\* a User is created with the id its email names, a Post with the id its title
\* names; the posts of data.posts.create are created with it
NewId(data, key, ids) ==
  IF \E i \in ids : Get(data, key) = Str(ToString(i))
  THEN CHOOSE i \in ids : Get(data, key) = Str(ToString(i)) ELSE 0
Created(modelName, data) ==
  LET id == NewId(data, "email", UserIds)
      posts == Get(Get(data, "posts"), "create")
  IN { Assign(UserRow(id, Null, "n0"), data) }
     \cup { Assign(PostRow(NewId(posts.v[i], "title", PostIds \cup OwnedIds), Null, id),
                    posts.v[i]) :
             i \in (IF posts.t = "arr" THEN DOMAIN posts.v ELSE {}) }
Create(store, modelName, args, data) ==
  LET rows == Created(modelName, data)
      root == { r \in rows : r.model = modelName }
  IN IF modelName # "User" \/ \E r \in rows : r.id = 0 THEN
       [store |-> store, rows |-> {}, error |-> "Validation", sel |-> {}]
     ELSE IF Ids(rows) \cap Ids(store) # {} THEN
       [store |-> store, rows |-> {}, error |-> "Unique", sel |-> {}]
     ELSE [store |-> store \cup rows, rows |-> root, error |-> "",
           sel |-> UNION { Selected(store \cup rows, modelName, args, r) : r \in root }]

\* One call executed by the engine on `store`: the store it leaves, the rows
\* its result returns or counts, what it returns through the selections, and
\* the error it raises ("" for none).
Update(store, modelName, args, picked, data) ==
  LET written == { Assign(r, data) : r \in picked }
      left == (store \ picked) \cup written
  IN [store |-> left, rows |-> written, error |-> "",
      sel |-> UNION { Selected(left, modelName, args, r) : r \in written }]

Answer(store, modelName, operation, args, picked) ==
  LET referenced == \E r \in picked :
                      \E f \in { g \in ModelOf(modelName).fields : g.kind = "object" /\ ~g.fk } :
                        Related(store, r, modelName, f.name) # {}
      unchanged(err) == [store |-> store, rows |-> {}, error |-> err, sel |-> {}]
  IN IF operation \in THROW_OPERATIONS /\ picked = {} THEN unchanged("NotFound")
     ELSE IF operation \in DATA_OPERATIONS
     THEN Update(store, modelName, args, picked, args.v["data"])
     ELSE IF operation = "upsert"
     THEN (IF picked # {} THEN Update(store, modelName, args, picked, args.v["update"])
           ELSE Create(store, modelName, args, args.v["create"]))
     ELSE IF operation \in REMOVE_OPERATIONS
     THEN IF referenced THEN unchanged("ForeignKey")
          ELSE [store |-> store \ picked, rows |-> picked, error |-> "", sel |-> {}]
     ELSE [store |-> store, rows |-> picked, error |-> "",
           sel |-> UNION { Selected(store, modelName, args, r) : r \in picked }]

Picked(store, modelName, operation, args) ==
  LET matched == { r \in RowsOf(store, modelName) :
                     Matches(store, modelName, Get(args, "where"), r) }
  IN IF operation \in FIRST_OPERATIONS THEN First(matched) ELSE matched

EngineRun(store, modelName, operation, args) ==
  IF ~ValidArgs(modelName, operation, args)
  THEN [store |-> store, rows |-> {}, error |-> "Validation", sel |-> {}]
  ELSE IF operation = "create" THEN Create(store, modelName, args, args.v["data"])
  ELSE Answer(store, modelName, operation, args, Picked(store, modelName, operation, args))

(* ------------------------------ the state ----------------------------- *)
VARIABLES
  db,     \* the store
  now,    \* the clock new Date() reads
  tomb,   \* ids of the rows a default-context delete soft-deleted, still so
  pc,     \* per chain: "idle", "invoked", "forwarded", "settled"
  call,   \* per chain: the call in flight
  fwd,    \* per chain: the operation and arguments handed to the engine
  res,    \* per chain: what the engine answered
  amb,    \* per chain: the interactive transactions it is in, innermost last:
          \* the view each was opened through and the store its callback runs under
  held,   \* per chain: the argument object the caller holds
  batch,  \* per chain: the list of calls it builds for $transaction([...])
  views   \* the wrappers made so far, the two caches, and per chain the
          \* object it holds (0 for the client, n for the n-th wrapper made)
          \* and the entry point it called last to get it

vars == <<db, now, tomb, pc, call, fwd, res, amb, held, batch, views>>

Chains == 1..MaxChains

NoCall == [via |-> <<>>, model |-> "", op |-> "", args |-> Undef, store |-> NoStore,
           q |-> [op |-> "", args |-> Undef]]
NoFwd == [op |-> "", args |-> Undef]
NoRes == [rows |-> {}, error |-> "", sel |-> {}]
NoHeld == [obj |-> Undef, orig |-> Undef, sent |-> <<>>]
NoBatch == [items |-> <<>>, stage |-> "open", error |-> "", out |-> <<>>]
\* withDeletedProxyCache and hardDeleteProxyCache, both empty
ViewKinds == {"withDeleted", "hardDelete"}
NoViews == [made |-> <<>>, cache |-> [k \in ViewKinds |-> NoKeys],
            ref |-> [c \in Chains |-> 0], asked |-> [c \in Chains |-> ""]]

\* the current store kept in one cell of the module, whichever chain reads it
Ambient_shared(c) ==
  LET inside == { d \in Chains : amb[d] # <<>> }
      d == CHOOSE x \in inside : \A y \in inside : x <= y
  IN IF inside = {} THEN NoStore ELSE amb[d][Len(amb[d])].store

\* the current store not handed on to the callbacks of a chain
Ambient_lost(c) == NoStore

\* the store current in chain c: that of its innermost transaction callback
Ambient(c) == IF amb[c] = <<>> THEN NoStore ELSE amb[c][Len(amb[c])].store

\* the context the call of chain c observes
Observed(c) == getSoftDeleteContext(call[c].store)

(* ------------------------------ the steps ----------------------------- *)
\* Chain c awaits prisma<via>.<model>.<operation>(args): the synchronous part,
\* up to the request being handed to the query extension. A view dispatches
\* the request inside its context; the client dispatches it where the chain
\* awaits it.
Invoke(c, via, modelName, operation, args) ==
  /\ pc[c] = "idle"
  /\ held[c] = NoHeld
  /\ call' = [call EXCEPT ![c] =
                [via |-> via, model |-> modelName, op |-> operation, args |-> args,
                 store |-> CallStore(via, Ambient(c)),
                 q |-> modelCall(modelName, operation, args, CallStore(via, Ambient(c)), now)]]
  /\ pc' = [pc EXCEPT ![c] = "invoked"]
  /\ held' = [held EXCEPT ![c] = [obj |-> args, orig |-> args, sent |-> <<>>]]
  /\ UNCHANGED <<db, now, tomb, fwd, res, amb, batch, views>>

\* chain c awaits prisma<via>.<model>.<operation>(args), a delete or a
\* deleteMany, on a client whose parent delegate exposes parentDelegate: the
\* transformer throws before it calls anything, or makes its call
InvokeDelete(c, via, parentDelegate, modelName, operation, args) ==
  /\ pc[c] = "idle"
  /\ held[c] = NoHeld
  /\ call' = [call EXCEPT ![c] =
                [via |-> via, model |-> modelName, op |-> operation, args |-> args,
                 store |-> CallStore(via, Ambient(c)),
                 q |-> handleDeleteOperationOn(parentDelegate, modelName, operation, args,
                                               CallStore(via, Ambient(c)), now)]]
  /\ held' = [held EXCEPT ![c] = [obj |-> args, orig |-> args, sent |-> <<>>]]
  /\ pc' = [pc EXCEPT ![c] =
              IF call'[c].q.op = "throw" THEN "settled" ELSE "invoked"]
  /\ res' = [res EXCEPT ![c] =
               IF call'[c].q.op = "throw"
               THEN [rows |-> {}, error |-> Unsupported(modelName, operation), sel |-> {}]
               ELSE @]
  /\ UNCHANGED <<db, now, tomb, fwd, amb, batch, views>>

\* $allOperations runs for the call of chain c and hands it to query(...)
Forward(c, out) ==
  /\ fwd' = [fwd EXCEPT ![c] = [op |-> call[c].q.op, args |-> out]]
  /\ held' = [held EXCEPT ![c] =
                [obj |-> CallerAfter(held[c].obj, out), orig |-> held[c].orig,
                 sent |-> Append(held[c].sent, out)]]

Rewrite(c) ==
  /\ pc[c] = "invoked"
  /\ Forward(c, allOperations(call[c].model, call[c].q.op, call[c].q.args, call[c].store))
  /\ pc' = [pc EXCEPT ![c] = "forwarded"]
  /\ UNCHANGED <<db, now, tomb, call, res, amb, batch, views>>

\* the ids a successful default-context delete has just soft-deleted
Entombed(c, before, answer) ==
  IF call[c].op = "delete" /\ fwd[c].op = "update" /\ answer.error = ""
     /\ Observed(c) = DefaultContext
  THEN { <<r.model, r.id>> : r \in { q \in answer.rows : IsDeleted(q) } }
       \cap Ids({ r \in before : ~IsDeleted(r) })
  ELSE {}

\* a layer answering null where the engine found no row
Surface_caught(via, result) ==
  IF result.error = "" THEN result ELSE [rows |-> {}, error |-> "", sel |-> {}]

\* What the caller of prisma<via> receives when query(...) settles with
\* `result`: the hook returns the promise of query(...), a wrapper awaits it
\* in an async function, and neither has a catch.
Surface(via, result) == result

\* the engine executes the forwarded call of chain c
Settle(c, answer) ==
  /\ db' = answer.store
  /\ res' = [res EXCEPT ![c] =
                Surface(call[c].via,
                        [rows |-> answer.rows, error |-> answer.error, sel |-> answer.sel])]
  /\ tomb' = (tomb \cup Entombed(c, db, answer))
             \cap Ids({ r \in answer.store : IsDeleted(r) })

Execute(c) ==
  /\ pc[c] = "forwarded"
  /\ Settle(c, EngineRun(db, call[c].model, fwd[c].op, fwd[c].args))
  /\ pc' = [pc EXCEPT ![c] = "settled"]
  /\ UNCHANGED <<now, call, fwd, amb, held, batch, views>>

\* the engine fails the forwarded call of chain c (connection lost, timeout)
EngineFail(c) ==
  /\ pc[c] = "forwarded"
  /\ res' = [res EXCEPT ![c] =
                Surface(call[c].via, [rows |-> {}, error |-> "Engine", sel |-> {}])]
  /\ pc' = [pc EXCEPT ![c] = "settled"]
  /\ UNCHANGED <<db, now, tomb, call, fwd, amb, held, batch, views>>

\* the awaiting caller of chain c resumes and drops the argument object
Return(c) ==
  /\ pc[c] = "settled"
  /\ pc' = [pc EXCEPT ![c] = "idle"]
  /\ call' = [call EXCEPT ![c] = NoCall]
  /\ fwd' = [fwd EXCEPT ![c] = NoFwd]
  /\ res' = [res EXCEPT ![c] = NoRes]
  /\ held' = [held EXCEPT ![c] = NoHeld]
  /\ UNCHANGED <<db, now, tomb, amb, batch, views>>

\* the awaiting caller of chain c resumes and keeps the argument object
Keep(c) ==
  /\ pc[c] = "settled"
  /\ Len(held[c].sent) < MaxRepeat
  /\ pc' = [pc EXCEPT ![c] = "idle"]
  /\ fwd' = [fwd EXCEPT ![c] = NoFwd]
  /\ res' = [res EXCEPT ![c] = NoRes]
  /\ UNCHANGED <<db, now, tomb, call, amb, held, batch, views>>

\* chain c makes its last call again, passing the object it kept
Reinvoke(c) ==
  /\ pc[c] = "idle"
  /\ held[c] # NoHeld
  /\ call' = [call EXCEPT ![c] =
                [via |-> call[c].via, model |-> call[c].model, op |-> call[c].op,
                 args |-> held[c].obj, store |-> CallStore(call[c].via, Ambient(c)),
                 q |-> modelCall(call[c].model, call[c].op, held[c].obj,
                                 CallStore(call[c].via, Ambient(c)), now)]]
  /\ pc' = [pc EXCEPT ![c] = "invoked"]
  /\ UNCHANGED <<db, now, tomb, fwd, res, amb, held, batch, views>>

\* chain c enters the callback of prisma<via>.$transaction(async (tx) => ...)
TxBegin(c, via) ==
  /\ pc[c] = "idle"
  /\ Len(amb[c]) < MaxDepth
  /\ amb' = [amb EXCEPT ![c] =
                Append(@, [via |-> via, store |-> CallStore(via, Ambient(c))])]
  /\ UNCHANGED <<db, now, tomb, pc, call, fwd, res, held, batch, views>>

\* the callback of the innermost transaction of chain c returns
TxEnd(c) ==
  /\ pc[c] = "idle"
  /\ amb[c] # <<>>
  /\ amb' = [amb EXCEPT ![c] = SubSeq(@, 1, Len(@) - 1)]
  /\ UNCHANGED <<db, now, tomb, pc, call, fwd, res, held, batch, views>>

Tick ==
  /\ now < MaxClock
  /\ now' = now + 1
  /\ UNCHANGED <<db, tomb, pc, call, fwd, res, amb, held, batch, views>>

(* --------------------------- the override views ----------------------- *)
\* The objects wrappers are made of: the client and its per-entity delegate.
\* The engine hands out the same delegate object at every read of prisma.user.
Client == <<"prisma">>
Member(target) == Append(target, "user")
IsDelegate(target) == Len(target) = 2

\* a wrapper made at every call, the cache never asked
getContextProxy_fresh(v, target, context, cache) ==
  [views |-> [v EXCEPT !.made = Append(@, [target |-> target, context |-> context,
                                           cache |-> cache]),
                       !.cache[cache] = (target :> (Len(v.made) + 1)) @@ @],
   proxy |-> Len(v.made) + 1]

\* getContextProxy(target, context, cache) where the wrappers and caches are v:
\* the wrappers and caches it leaves and the wrapper it returns
getContextProxy(v, target, context, cache) ==
  IF target \in DOMAIN v.cache[cache]
  THEN [views |-> v, proxy |-> v.cache[cache][target]]
  ELSE [views |-> [v EXCEPT !.made = Append(@, [target |-> target, context |-> context,
                                                cache |-> cache]),
                            !.cache[cache] = (target :> (Len(v.made) + 1)) @@ @],
        proxy |-> Len(v.made) + 1]

\* the entry point of a wrapper looking in the wrapper's own cache
EntryCache_own(v, held_, kind) == IF held_ = 0 THEN kind ELSE v.made[held_].cache

\* the cache an entry point looks in: its own, whatever object it is read from
EntryCache(v, held_, kind) == kind

\* the object an entry point wraps: the client it is called on, or the target
\* of the wrapper it is read from
EntryTarget(v, held_) == IF held_ = 0 THEN Client ELSE v.made[held_].target

\* chain c holds the wrapper `got`, gotten by the entry point `kind`
Holding(c, got, kind) ==
  views' = [got.views EXCEPT !.ref[c] = got.proxy, !.asked[c] = kind]

\* chain c calls withDeleted() or hardDelete() on the object it holds
EnterView(c, kind) ==
  /\ pc[c] = "idle"
  /\ Holding(c, getContextProxy(views, EntryTarget(views, views.ref[c]),
                                ViewContext(<<kind>>),
                                EntryCache(views, views.ref[c], kind)), kind)
  /\ UNCHANGED <<db, now, tomb, pc, call, fwd, res, amb, held, batch>>

\* chain c reads the delegate of the view it holds
ReadMember(c) ==
  /\ pc[c] = "idle"
  /\ views.ref[c] # 0
  /\ ~IsDelegate(views.made[views.ref[c]].target)
  /\ Holding(c, getContextProxy(views, Member(views.made[views.ref[c]].target),
                                views.made[views.ref[c]].context,
                                views.made[views.ref[c]].cache), views.asked[c])
  /\ UNCHANGED <<db, now, tomb, pc, call, fwd, res, amb, held, batch>>

\* chain c lets go of the wrapper it holds and starts again from the client
Leave(c) ==
  /\ pc[c] = "idle"
  /\ views.ref[c] # 0
  /\ views' = [views EXCEPT !.ref[c] = 0, !.asked[c] = ""]
  /\ UNCHANGED <<db, now, tomb, pc, call, fwd, res, amb, held, batch>>

\* chain c awaits <operation>(args) of the delegate wrapper it holds: the
\* member runs under the wrapper's context merged over the current store
InvokeOn(c, operation, args) ==
  /\ pc[c] = "idle"
  /\ held[c] = NoHeld
  /\ views.ref[c] # 0
  /\ IsDelegate(views.made[views.ref[c]].target)
  /\ call' = [call EXCEPT ![c] =
                [via |-> <<views.made[views.ref[c]].cache>>, model |-> "User",
                 op |-> operation, args |-> args,
                 store |-> runWithSoftDeleteContext(views.made[views.ref[c]].context,
                                                    Ambient(c)),
                 q |-> modelCall("User", operation, args,
                                 runWithSoftDeleteContext(views.made[views.ref[c]].context,
                                                          Ambient(c)), now)]]
  /\ pc' = [pc EXCEPT ![c] = "invoked"]
  /\ held' = [held EXCEPT ![c] = [obj |-> args, orig |-> args, sent |-> <<>>]]
  /\ UNCHANGED <<db, now, tomb, fwd, res, amb, batch, views>>

(* ---------------------- the array-style $transaction ------------------ *)
\* a member function of a view handing back the engine's own handle
HandleKind_kept(via, operation) == "PrismaPromise"

\* a handle the engine does not take and that dispatches when it is awaited
HandleKind_deferred(via, operation) ==
  IF via = <<>> /\ operation \notin REMOVE_OPERATIONS THEN "PrismaPromise" ELSE "Deferred"

\* What a model call hands back: the client's own call gives the engine's
\* lazy PrismaPromise; a function member of a view awaits the result inside an
\* async function and hands back that function's plain Promise, and so do
\* delete and deleteMany, async methods of the write-transform extension.
HandleKind(via, operation) ==
  IF via = <<>> /\ operation \notin REMOVE_OPERATIONS THEN "PrismaPromise" ELSE "Promise"

\* the rows the engine answers a read dispatched under the store `store`
DispatchedCall(store, modelName, q) ==
  EngineRun(db, modelName, q.op, allOperations(modelName, q.op, q.args, store)).rows
Dispatched(store, modelName, operation, args) ==
  DispatchedCall(store, modelName, modelCall(modelName, operation, args, store, now))

\* the engine's answer to the call the hook forwards for q under `store`
DispatchedAnswer(store, modelName, q) ==
  EngineRun(db, modelName, q.op, allOperations(modelName, q.op, q.args, store))
\* what a handle of the given kind has had the engine do by the time the
\* statement that made it is over: a plain Promise has dispatched its call
Eager(kind, store, modelName, operation, args) ==
  IF kind = "Promise"
  THEN DispatchedAnswer(store, modelName,
                        modelCall(modelName, operation, args, store, now))
  ELSE [store |-> db, rows |-> {}, error |-> "", sel |-> {}]

\* the list of chain c with the handle of the call appended, its call run or not
Listed(c, via, modelName, operation, args, kind, answer) ==
  /\ batch' = [batch EXCEPT ![c].items =
                 Append(@, [via |-> via, model |-> modelName, op |-> operation,
                            args |-> args, kind |-> kind, rows |-> answer.rows])]
  /\ db' = answer.store
  /\ tomb' = tomb \cap Ids({ r \in answer.store : IsDeleted(r) })

\* Chain c writes prisma<via>.<model>.<operation>(args) as the next element of
\* the list it builds. A plain Promise has dispatched its call already, in the
\* context of its view and outside any transaction; a PrismaPromise has
\* dispatched nothing.
BatchAdd(c, via, modelName, operation, args) ==
  /\ pc[c] = "idle"
  /\ batch[c].stage = "open"
  /\ Len(batch[c].items) < MaxBatch
  /\ Listed(c, via, modelName, operation, args, HandleKind(via, operation),
            Eager(HandleKind(via, operation), CallStore(via, Ambient(c)),
                  modelName, operation, args))
  /\ UNCHANGED <<now, pc, call, fwd, res, amb, held, views>>

\* the answers of a list of PrismaPromises run in order under `store`
BatchAnswers(store, items) ==
  [ i \in DOMAIN items |-> Dispatched(store, items[i].model, items[i].op, items[i].args) ]

\* Chain c awaits prisma<via>.$transaction(list): the engine takes a list of
\* PrismaPromises only and rejects any other before running anything.
BatchSubmit(c, via) ==
  /\ pc[c] = "idle"
  /\ batch[c].stage = "open"
  /\ batch[c].items # <<>>
  /\ batch' = [batch EXCEPT ![c] =
                 IF \E i \in DOMAIN batch[c].items : batch[c].items[i].kind # "PrismaPromise"
                 THEN [items |-> batch[c].items, stage |-> "done",
                       error |-> "Prisma Client promises", out |-> <<>>]
                 ELSE [items |-> batch[c].items, stage |-> "done", error |-> "",
                       out |-> BatchAnswers(CallStore(via, Ambient(c)), batch[c].items)]]
  /\ UNCHANGED <<db, now, tomb, pc, call, fwd, res, amb, held, views>>

\* the awaiting caller of chain c resumes and drops the list
BatchDrop(c) ==
  /\ batch[c].stage = "done"
  /\ batch' = [batch EXCEPT ![c] = NoBatch]
  /\ UNCHANGED <<db, now, tomb, pc, call, fwd, res, amb, held, views>>

(* ------------------------------ the inputs ---------------------------- *)
Views == {<<>>, <<"withDeleted">>, <<"hardDelete">>}
Chained == {<<"hardDelete", "withDeleted">>, <<"withDeleted", "hardDelete">>}

ByEmail(i) == COb("email" :> Str(ToString(i)))
ById(i) == COb("id" :> Num(i))
WhereOnly(w) == COb("where" :> w)
DeletedOnly == COb(SOFT_DELETE_FIELD :> COb("not" :> Null))
Rename == COb("name" :> Str("n1"))
Restore == COb(SOFT_DELETE_FIELD :> Null)

\* the seeded scenario: users 1.. active but for the deleted user 2, and one
\* post, of user 1
SeedUsers == { UserRow(i, IF i = 2 THEN DateV(1) ELSE Null, "n0") : i \in UserIds }
SeedStore == SeedUsers \cup { PostRow(1, Null, 1) }

\* every store of the users, and of posts by user 1, each deleted or not
Stores ==
  LET Dels == {Null, DateV(1)}
      userSets == { { UserRow(i, d[i], "n0") : i \in UserIds } : d \in [UserIds -> Dels] }
      postSets == { { PostRow(i, p[i], 1) : i \in { j \in PostIds : p[j] # Undef } } :
                    p \in [PostIds -> Dels \cup {Undef}] }
  IN { u \cup q : u \in userSets, q \in postSets }

Idle ==
  /\ now = 1
  /\ tomb = {}
  /\ pc = [c \in Chains |-> "idle"]
  /\ call = [c \in Chains |-> NoCall]
  /\ fwd = [c \in Chains |-> NoFwd]
  /\ res = [c \in Chains |-> NoRes]
  /\ amb = [c \in Chains |-> <<>>]
  /\ held = [c \in Chains |-> NoHeld]
  /\ batch = [c \in Chains |-> NoBatch]
  /\ views = NoViews

(* ---- Spec: one chain reading and deleting, one call after another ---- *)
\* <<model, operation, args>>
SeqCalls ==
  { <<"User", "findMany", Undef>>, <<"User", "count", WhereOnly(DeletedOnly)>>,
    <<"User", "deleteMany", Undef>>, <<"Post", "deleteMany", Undef>>,
    <<"Post", "count", Undef>>, <<"Post", "delete", WhereOnly(ById(1))>>,
    <<"User", "delete", COb(("where" :> ByEmail(1)) @@ ("data" :> Rename))>>,
    <<"User", "update", COb(("where" :> ByEmail(1)) @@ ("data" :> Restore))>> }
  \cup { <<"User", "findUnique", WhereOnly(ByEmail(i))>> : i \in UserIds }
  \cup { <<"User", "delete", WhereOnly(ByEmail(i))>> : i \in UserIds }
  \cup { <<"User", "deleteMany", WhereOnly(ByEmail(i))>> : i \in UserIds }

Init == db = SeedStore /\ Idle

Next ==
  \/ \E via \in Views, k \in SeqCalls : Invoke(1, via, k[1], k[2], k[3])
  \/ Rewrite(1)
  \/ Execute(1)
  \/ EngineFail(1)
  \/ Return(1)
  \/ Tick

Spec == Init /\ [][Next]_vars

(* ---- SpecTx: one chain inside and outside interactive transactions ---- *)
TxCalls ==
  { <<"User", "count", Undef>>, <<"User", "deleteMany", Undef>> }

InitTx == db = SeedUsers /\ Idle

NextTx ==
  \/ \E via \in Views \cup Chained, k \in TxCalls : Invoke(1, via, k[1], k[2], k[3])
  \/ Rewrite(1)
  \/ Execute(1)
  \/ Return(1)
  \/ \E via \in Views \cup Chained : TxBegin(1, via)
  \/ TxEnd(1)

SpecTx == InitTx /\ [][NextTx]_vars

(* ---- SpecConc: chains launched together, interleaved at every await --- *)
ConcCalls ==
  { <<"User", "count", Undef>> }

NextConc ==
  \/ \E c \in Chains, via \in Views, k \in ConcCalls : Invoke(c, via, k[1], k[2], k[3])
  \/ \E c \in Chains : Rewrite(c)
  \/ \E c \in Chains : Execute(c)
  \/ \E c \in Chains : Return(c)
  \/ \E c \in Chains, via \in {<<>>, <<"withDeleted">>} : TxBegin(c, via)
  \/ \E c \in Chains : TxEnd(c)

SpecConc == InitTx /\ [][NextConc]_vars

(* ---- SpecScope: the rewriters over argument trees and stores --------- *)
UserWheres ==
  { DeletedOnly,
    ByEmail(1),
    COb(SOFT_DELETE_FIELD :> DateV(1)),
    COb("OR" :> CAr(<<DeletedOnly, ByEmail(1)>>)),
    COb("NOT" :> COb(SOFT_DELETE_FIELD :> Null)),
    COb("posts" :> COb("some" :> DeletedOnly)),
    COb("posts" :> COb("every" :> COb("title" :> Str("1")))),
    COb("posts" :> COb("none" :> COb(NoKeys))) }
UserUniqueWheres ==
  { ByEmail(1), ById(2),
    COb(("email" :> Str("2")) @@ (SOFT_DELETE_FIELD :> COb("not" :> Null))),
    COb(("email" :> Str("2")) @@ ("OR" :> CAr(<<DeletedOnly>>))) }
PostWheres ==
  { DeletedOnly,
    COb("author" :> COb("is" :> DeletedOnly)),
    COb("author" :> COb("isNot" :> COb(SOFT_DELETE_FIELD :> Null))),
    COb("author" :> ByEmail(1)) }
UserIncludes ==
  { COb("posts" :> Bool(TRUE)),
    COb("posts" :> COb("where" :> COb("title" :> Str("1")))),
    COb("_count" :> COb("select" :> COb("posts" :> Bool(TRUE)))) }

UserArgs ==
  {Undef, COb(NoKeys), COb("where" :> Str("x"))}
  \cup { WhereOnly(w) : w \in UserWheres }
  \cup { COb("include" :> i) : i \in UserIncludes }
  \cup { COb(("where" :> COb("posts" :> COb("some" :> COb("title" :> Str("1")))))
             @@ ("include" :> COb("posts" :> COb("where" :> COb("title" :> Str("1")))))),
         COb(("where" :> ByEmail(1)) @@ ("select" :> COb("posts" :> COb("select" :>
               COb("author" :> Bool(TRUE)))))),
         COb(("where" :> DeletedOnly) @@ ("orderBy" :> COb("id" :> Str("asc")))) }
PostArgs ==
  {Undef} \cup { WhereOnly(w) : w \in PostWheres }
  \cup { COb("include" :> COb("author" :> COb("include" :> COb("posts" :> Bool(TRUE))))) }

ManyReads == ROOT_SCOPED_OPERATIONS \ UNIQUE_READ_OPERATIONS

ScopeCalls ==
  { <<"User", o, a>> : o \in ManyReads, a \in UserArgs }
  \cup { <<"User", o, WhereOnly(w)>> : o \in UNIQUE_READ_OPERATIONS, w \in UserUniqueWheres }
  \cup { <<"Post", o, a>> : o \in ManyReads, a \in PostArgs }
  \cup { <<"Post", o, WhereOnly(ById(1))>> : o \in UNIQUE_READ_OPERATIONS }
  \cup { <<"Post", "deleteMany", WhereOnly(COb("author" :> COb("is" :> DeletedOnly)))>> }

InitScope == db \in Stores /\ Idle

NextScope ==
  \/ \E via \in Views, k \in ScopeCalls : Invoke(1, via, k[1], k[2], k[3])
  \/ Rewrite(1)
  \/ Execute(1)
  \/ Return(1)
  \/ Keep(1)
  \/ Reinvoke(1)

SpecScope == InitScope /\ [][NextScope]_vars

(* ---- SpecSelect: what comes back through the selections of relations -- *)
Titled(i) == COb("title" :> Str(ToString(i)))
CountOf(selection) == COb("_count" :> COb("select" :> COb("posts" :> selection)))
UserSelections ==
  { COb("posts" :> Bool(TRUE)),
    COb("posts" :> COb("where" :> Titled(1))),
    COb("posts" :> COb("orderBy" :> COb("id" :> Str("asc")))),
    COb("posts" :> COb("include" :> COb("author" :> Bool(TRUE)))),
    COb("posts" :> COb("include" :> COb("author" :> COb("include" :>
                     COb("posts" :> Bool(TRUE)))))),
    CountOf(Bool(TRUE)),
    CountOf(COb("where" :> Titled(1))),
    CountOf(COb(NoKeys)),
    COb("_count" :> Bool(TRUE)) }
PostSelections ==
  { COb("author" :> Bool(TRUE)),
    COb("author" :> COb("include" :> COb("posts" :> Bool(TRUE)))),
    COb("author" :> COb("select" :> CountOf(Bool(TRUE)))) }

\* the user created is the one after the last of the store, with a visible
\* post and a hidden one
NewUser ==
  COb(("email" :> Str(ToString(MaxUsers))) @@ ("name" :> Str("n1"))
      @@ ("posts" :> COb("create" :> CAr(<<Titled(1),
            COb(("title" :> Str("2")) @@ (SOFT_DELETE_FIELD :> DateV(1)))>>))))
Upsert(i, selection) ==
  COb(("where" :> ByEmail(i)) @@ ("update" :> Rename)
      @@ ("create" :> COb(("email" :> Str(ToString(i))) @@ ("name" :> Str("n1"))))
      @@ ("include" :> selection))

SelectCalls ==
  { <<"User", "findMany", COb(k :> x)>> : k \in {"include", "select"}, x \in UserSelections }
  \cup { <<"Post", "findMany", COb(k :> x)>> : k \in {"include", "select"}, x \in PostSelections }
  \cup { <<"User", "findUniqueOrThrow", COb(("where" :> ByEmail(1)) @@ ("include" :> x))>> :
          x \in {CountOf(Bool(TRUE)), COb("_count" :> Bool(TRUE))} }
  \cup { <<"User", "update",
           COb(("where" :> ByEmail(1)) @@ ("data" :> Rename) @@ ("include" :> x))>> :
          x \in {COb("posts" :> Bool(TRUE)), CountOf(Bool(TRUE))} }
  \cup { <<"User", "create", COb(("data" :> NewUser) @@ ("include" :> x))>> :
          x \in {COb("posts" :> Bool(TRUE)), CountOf(Bool(TRUE))} }
  \cup { <<"User", "upsert", Upsert(i, COb("posts" :> Bool(TRUE)))>> : i \in {1, MaxUsers} }

\* user 1, deleted or not, with posts of its own, each deleted or not
SelectStores ==
  LET Dels == {Null, DateV(1)}
  IN { { UserRow(1, d, "n0") } \cup { PostRow(i, p[i], 1) : i \in { j \in OwnedIds : p[j] # Undef } } :
       d \in Dels, p \in [OwnedIds -> Dels \cup {Undef}] }

InitSelect == db \in SelectStores /\ Idle

NextSelect ==
  \/ \E via \in Views, k \in SelectCalls : Invoke(1, via, k[1], k[2], k[3])
  \/ Rewrite(1)
  \/ Execute(1)
  \/ Return(1)

SpecSelect == InitSelect /\ [][NextSelect]_vars

(* ---- SpecShape: the trees forwarded for relation filters, selections,
        entities without deletedAt and values of the wrong shape ---------- *)
Worded(k, i) == COb(k :> Str(ToString(i)))
\* a list-relation filter with each set of operators, on the sub-filter sub
ListFilters(sub) ==
  { COb(("some" :> sub)), COb(("none" :> sub)), COb(("every" :> sub)),
    COb(("some" :> sub) @@ ("every" :> sub)),
    COb(("some" :> sub) @@ ("none" :> COb(NoKeys)) @@ ("every" :> sub)) }
\* a to-one relation filter in each of its forms, on the sub-filter sub
ToOneFilters(sub) ==
  { COb("is" :> sub), COb("isNot" :> sub), COb(("is" :> sub) @@ ("isNot" :> DeletedOnly)),
    COb("is" :> Null), sub }
\* values where a filter or selection object is expected
Misshapen == { Str("x"), Num(1), Null, CAr(<<Str("x")>>) }

UserShapeWheres ==
  { COb("posts" :> f) : f \in ListFilters(Titled(1)) \cup ListFilters(COb("author" :> ByEmail(1))) }
  \cup { COb("profile" :> f) : f \in ToOneFilters(Worded("bio", 1)) }
  \cup { COb("posts" :> COb(o :> x)) : o \in {"some", "none", "every"}, x \in Misshapen }
  \cup { COb("OR" :> CAr(<<COb("posts" :> COb("some" :> Titled(1))), ByEmail(2)>>)),
         COb(("email" :> Str("1")) @@ ("posts" :> COb("some" :> Titled(1)))),
         ByEmail(1), DeletedOnly }
PostShapeWheres ==
  { COb("author" :> f) :
      f \in ToOneFilters(ByEmail(1)) \cup ToOneFilters(COb("posts" :> COb("some" :> Titled(1)))) }
  \cup { COb("comments" :> f) :
          f \in ListFilters(Worded("text", 1)) \cup ListFilters(COb("post" :> COb("is" :> Titled(1)))) }
  \cup { COb("author" :> COb(o :> x)) : o \in {"is", "isNot"}, x \in Misshapen }
ProfileShapeWheres ==
  { Worded("bio", 1), COb("user" :> COb("is" :> ByEmail(1))), COb("user" :> ByEmail(1)),
    COb("NOT" :> Worded("bio", 1)) }
CommentShapeWheres ==
  { Worded("text", 1), COb("post" :> Titled(1)), COb("post" :> COb("isNot" :> Titled(1))) }

ShapeSelections ==
  [ User |-> { COb("profile" :> Bool(TRUE)),
               COb("profile" :> COb("select" :> COb("user" :> Bool(TRUE)))),
               COb("posts" :> COb("include" :> COb("comments" :> Bool(TRUE)))),
               COb("posts" :> Bool(FALSE)), COb("posts" :> Str("x")),
               COb("_count" :> Str("x")),
               COb("_count" :> COb("select" :> COb("posts" :> Str("x")))) },
    Post |-> { COb("author" :> Bool(TRUE)),
               COb("author" :> COb("include" :> COb("posts" :> Bool(TRUE)))),
               COb("author" :> COb("where" :> COb("posts" :> COb("some" :> Titled(1))))),
               COb("author" :> COb("where" :> ByEmail(1))),
               COb("comments" :> Bool(TRUE)),
               COb("comments" :> COb("where" :> Worded("text", 1))),
               COb("comments" :> COb("include" :> COb("post" :> Bool(TRUE)))),
               COb("_count" :> COb("select" :> COb("comments" :> Bool(TRUE)))) },
    Profile |-> { COb("user" :> Bool(TRUE)),
                  COb("user" :> COb("include" :> COb("posts" :> Bool(TRUE)))) },
    Comment |-> { COb("post" :> Bool(TRUE)),
                  COb("post" :> COb("include" :> COb("comments" :> Bool(TRUE)))) } ]
ShapeWheres ==
  [ User |-> UserShapeWheres, Post |-> PostShapeWheres,
    Profile |-> ProfileShapeWheres, Comment |-> CommentShapeWheres ]

ShapeArgs(m) ==
  { WhereOnly(w) : w \in ShapeWheres[m] \cup Misshapen }
  \cup { COb(k :> x) : k \in {"include", "select"}, x \in ShapeSelections[m] \cup Misshapen }
  \cup Misshapen \cup { Undef, COb(NoKeys) }

ShapeCalls ==
  UNION { { <<m, o, a>> : o \in {"findMany", "findFirst", "count"}, a \in ShapeArgs(m) } :
          m \in ModelNames }
  \cup { <<"User", o, WhereOnly(w)>> :
          o \in ROOT_SCOPED_OPERATIONS,
          w \in UserUniqueWheres \cup Misshapen
                \cup { COb(("email" :> Str("1")) @@ ("posts" :> COb("some" :> Titled(1)))) } }
  \cup { <<m, "findUnique", WhereOnly(ById(1))>> : m \in {"Profile", "Comment"} }
  \cup { <<m, "updateMany", COb(("where" :> w) @@ ("data" :> COb(NoKeys)))>> :
          m \in {"User"}, w \in { COb("posts" :> f) : f \in ListFilters(Titled(1)) } }
  \cup { <<m, "delete", WhereOnly(ById(1))>> : m \in {"Profile", "Comment"} }
  \cup { <<m, "deleteMany", a>> :
          m \in {"Profile", "Comment"}, a \in {Undef, WhereOnly(ById(1)), Str("x")} }

\* users 1.., user 1 deleted or not, with a profile and a post, deleted or
\* not, that has a comment or none
ShapeStores ==
  { { UserRow(i, IF i = 1 THEN d ELSE Null, "n0") : i \in UserIds }
    \cup { ProfileRow(1, 1), PostRow(1, p, 1) } \cup k :
    d \in {Null, DateV(1)}, p \in {Null, DateV(1)}, k \in {{}, {CommentRow(1, 1)}} }

InitShape == db \in ShapeStores /\ Idle

NextShape ==
  \/ \E via \in Views, k \in ShapeCalls : Invoke(1, via, k[1], k[2], k[3])
  \/ Rewrite(1)
  \/ Execute(1)
  \/ Return(1)

SpecShape == InitShape /\ [][NextShape]_vars

(* ---- SpecBatch: lists of reads handed to $transaction([...]) --------- *)
BatchCalls ==
  { <<"User", "findMany", COb("orderBy" :> COb("id" :> Str("asc")))>>,
    <<"User", "count", Undef>>, <<"User", "deleteMany", Undef>> }

NextBatch ==
  \/ \E via \in Views, k \in BatchCalls : BatchAdd(1, via, k[1], k[2], k[3])
  \/ \E via \in Views : BatchSubmit(1, via)
  \/ BatchDrop(1)

SpecBatch == InitScope /\ [][NextBatch]_vars

(* ---- SpecDelegate: deletes on delegates exposing more or less ---------- *)
\* the operations a parent delegate may expose
Delegates ==
  { ROOT_SCOPED_OPERATIONS \cup DATA_OPERATIONS \cup r : r \in SUBSET REMOVE_OPERATIONS }

DeleteCalls ==
  { <<"User", "deleteMany", Undef>>, <<"Comment", "deleteMany", Undef>>,
    <<"Comment", "delete", WhereOnly(ById(1))>>,
    <<"User", "delete", COb(("where" :> ByEmail(1)) @@ ("data" :> Rename))>> }

NextDelegate ==
  \/ \E via \in Views, d \in Delegates, k \in DeleteCalls :
       InvokeDelete(1, via, d, k[1], k[2], k[3])
  \/ Rewrite(1)
  \/ Execute(1)
  \/ Return(1)

SpecDelegate == InitShape /\ [][NextDelegate]_vars

(* ---- SpecFail: calls the engine rejects ------------------------------- *)
FailCalls ==
  { <<"User", o, WhereOnly(ByEmail(i))>> :
      o \in {"findUnique", "findUniqueOrThrow", "delete"}, i \in UserIds }
  \cup { <<"User", "findFirstOrThrow", Undef>>,
         <<"User", "findMany", WhereOnly(COb("nope" :> Num(1)))>> }

NextFail ==
  \/ \E via \in Views, k \in FailCalls : Invoke(1, via, k[1], k[2], k[3])
  \/ Rewrite(1)
  \/ Execute(1)
  \/ EngineFail(1)
  \/ Return(1)

SpecFail == InitScope /\ [][NextFail]_vars

(* ---- SpecTree: reads filtered by nested where trees ------------------- *)
TreeLeaves ==
  [ User |-> {ByEmail(1), DeletedOnly}, Post |-> {Titled(1), DeletedOnly},
    Profile |-> {Worded("bio", 1)}, Comment |-> {Worded("text", 1)} ]

\* the relation filters on field f of modelName over the sub-filters subs
RelationFilters(modelName, f, subs) ==
  IF relationFieldsByModel[modelName][f].isList
  THEN { COb(f :> COb(o :> t)) : o \in {"some", "none", "every"}, t \in subs }
  ELSE { COb(f :> COb("is" :> t)) : t \in subs } \cup { COb(f :> t) : t \in subs }

\* the where trees on modelName nesting combinators and relation filters to
\* depth d
RECURSIVE Trees(_, _)
Trees(modelName, d) ==
  IF d = 0 THEN TreeLeaves[modelName]
  ELSE TreeLeaves[modelName]
       \cup { COb("NOT" :> t) : t \in Trees(modelName, d - 1) }
       \cup { COb("AND" :> t) : t \in Trees(modelName, d - 1) }
       \cup { COb("OR" :> CAr(<<t, l>>)) :
                t \in Trees(modelName, d - 1), l \in TreeLeaves[modelName] }
       \cup UNION { RelationFilters(modelName, f,
                                    Trees(relationFieldsByModel[modelName][f].targetModel,
                                          d - 1)) :
                    f \in DOMAIN relationFieldsByModel[modelName] }

TreeCalls ==
  UNION { { <<m, "findMany", WhereOnly(w)>> : w \in Trees(m, MaxNest) } : m \in ModelNames }

NextTree ==
  \/ \E k \in TreeCalls : Invoke(1, <<>>, k[1], k[2], k[3])
  \/ Rewrite(1)
  \/ Execute(1)
  \/ Return(1)

SpecTree == InitShape /\ [][NextTree]_vars

(* ---- SpecConvert: deletes carrying data, selections and other keys ---- *)
ConvertData ==
  { Undef, Rename, Restore, COb(SOFT_DELETE_FIELD :> DateV(0)), Str("x"),
    COb(("name" :> Str("n1")) @@ (SOFT_DELETE_FIELD :> Null)) }
ConvertArgs(base) ==
  { COb(base @@ d @@ i) :
      d \in {NoKeys} \cup { "data" :> x : x \in ConvertData \ {Undef} },
      i \in { NoKeys, "include" :> COb("posts" :> Bool(TRUE)),
              "select" :> COb("email" :> Bool(TRUE)) } }
ConvertCalls ==
  { <<"User", "delete", a>> : a \in ConvertArgs("where" :> ByEmail(1)) }
  \cup { <<"User", "deleteMany", a>> :
           a \in ConvertArgs("where" :> ByEmail(1)) \cup ConvertArgs(NoKeys) }
  \cup { <<"User", "deleteMany", Undef>> }

NextConvert ==
  \/ \E via \in Views, k \in ConvertCalls : Invoke(1, via, k[1], k[2], k[3])
  \/ Rewrite(1)
  \/ Execute(1)
  \/ Return(1)
  \/ Tick

SpecConvert == InitScope /\ [][NextConvert]_vars

(* ---- SpecKeys: calls carrying keys the rewrite has no part in --------- *)
\* top-level keys other than where, include and select, with a value each
OtherKeys ==
  { "data" :> COb(("name" :> Str("n1")) @@ ("where" :> Str("w"))),
    "orderBy" :> CAr(<<COb("id" :> Str("asc")), COb("posts" :> COb("_count" :> Str("desc")))>>),
    "take" :> Num(1), "skip" :> Num(1), "cursor" :> ById(1),
    "by" :> CAr(<<Str(SOFT_DELETE_FIELD)>>),
    "having" :> COb(SOFT_DELETE_FIELD :> COb("not" :> Null)),
    "_count" :> COb("select" :> COb("posts" :> Bool(TRUE))),
    "_max" :> COb(SOFT_DELETE_FIELD :> Bool(TRUE)),
    "distinct" :> CAr(<<Str("id")>>),
    "create" :> COb("posts" :> COb("where" :> DeletedOnly)) }
ScopedKeys ==
  { NoKeys, "where" :> ById(1), "where" :> COb("posts" :> COb("some" :> Titled(1))),
    "include" :> COb("posts" :> Bool(TRUE)),
    ("where" :> ById(1)) @@ ("select" :> COb("posts" :> Bool(TRUE))) }
KeyOperations ==
  ROOT_SCOPED_OPERATIONS \cup DATA_OPERATIONS \cup REMOVE_OPERATIONS \cup {"create", "upsert"}
\* each of the other keys alone, and the grouped read's keys together
KeySets ==
  OtherKeys \cup { ("by" :> CAr(<<Str(SOFT_DELETE_FIELD)>>))
                     @@ ("having" :> COb(SOFT_DELETE_FIELD :> COb("not" :> Null)))
                     @@ ("take" :> Num(1)) }
KeyCalls ==
  { <<m, o, COb(x @@ z)>> :
      m \in ModelNames, o \in KeyOperations, x \in KeySets, z \in ScopedKeys }

\* the calls are followed up to the engine, which here answers none of them
NextKeys ==
  \/ \E via \in Views, k \in KeyCalls : Invoke(1, via, k[1], k[2], k[3])
  \/ Rewrite(1)
  \/ EngineFail(1)
  \/ Return(1)

SpecKeys == Init /\ [][NextKeys]_vars

(* ---- SpecViews: the wrappers the override entry points hand out ------ *)
NextViews ==
  \/ \E kind \in ViewKinds : EnterView(1, kind)
  \/ ReadMember(1)
  \/ Leave(1)
  \/ \E k \in TxCalls : InvokeOn(1, k[2], k[3])
  \/ Rewrite(1)
  \/ Execute(1)
  \/ Return(1)
  \/ \E via \in Views : TxBegin(1, via)
  \/ TxEnd(1)

SpecViews == InitTx /\ [][NextViews]_vars

(* ------------------------------ properties ---------------------------- *)
Running(c) == pc[c] # "idle"
Sent(c) == pc[c] \in {"forwarded", "settled"}
Answered(c) == pc[c] = "settled" /\ res[c].error = ""
\* the rows of the call's entity that the caller's own filter matches
CallerMatched(c) ==
  { r \in RowsOf(db, call[c].model) :
      Matches(db, call[c].model, Get(call[c].args, "where"), r) }
ScopedRead(c) ==
  call[c].model \in softDeleteModels /\ call[c].op \in ROOT_SCOPED_OPERATIONS

\* C1: in the default context no root-scoped read of a soft-deletable entity
\* returns or counts a row whose deletedAt is non-null, whatever filter the
\* caller passes -- one asking for deleted rows, or no arguments at all.
DefaultReadHidesDeleted ==
  \A c \in Chains :
    (pc[c] = "settled" /\ ScopedRead(c) /\ Observed(c) = DefaultContext)
      => \A r \in res[c].rows : ~IsDeleted(r)

\* a default-context read has answered a caller whose filter asks for the
\* deleted rows, or who passed nothing, while the store holds a deleted row
\* that filter matches
DeletedRowAskedFor ==
  \E c \in Chains :
    /\ Answered(c) /\ ScopedRead(c) /\ Observed(c) = DefaultContext
    /\ call[c].args \in {Undef, WhereOnly(DeletedOnly)}
    /\ \E r \in CallerMatched(c) : IsDeleted(r)

\* C4: under includeDeleted the hook forwards the argument tree it is given
\* as it is -- for every operation but a converted delete the caller's very
\* object, and for a converted delete a tree whose where is the caller's --
\* so nothing is injected at the root where, in relation filters or in
\* selections, and a read with no where returns the soft-deleted rows too.
IncludeDeletedForwardsUntouched ==
  \A c \in Chains :
    (Sent(c) /\ Observed(c).includeDeleted) =>
      /\ fwd[c].args = call[c].q.args
      /\ call[c].op \notin {"delete", "deleteMany"} => fwd[c].args = call[c].args
      /\ DeepEqual(Get(fwd[c].args, "where"), Get(call[c].args, "where"))
      /\ DeepEqual(Get(fwd[c].args, "include"), Get(call[c].args, "include"))
      /\ DeepEqual(Get(fwd[c].args, "select"), Get(call[c].args, "select"))
      /\ (Answered(c) /\ ScopedRead(c)) =>
           res[c].rows = (IF call[c].op \in FIRST_OPERATIONS
                          THEN First(CallerMatched(c)) ELSE CallerMatched(c))
      /\ (Answered(c) /\ ScopedRead(c) /\ ~hasWhere(call[c].args)
            /\ call[c].op \notin FIRST_OPERATIONS)
           => res[c].rows = RowsOf(db, call[c].model)

\* a read through an override view, its arguments carrying a relation filter
\* and a relation selection, has returned a soft-deleted row
DeletedRowReadThroughView ==
  \E c \in Chains :
    /\ Answered(c) /\ ScopedRead(c) /\ call[c].via # <<>>
    /\ Has(call[c].args, "include") /\ Has(call[c].args, "where")
    /\ \E r \in res[c].rows : IsDeleted(r)

\* C6: a caller-held argument object passed to a scoped read again and again
\* stays deeply equal to what it was, the same rewritten tree is forwarded
\* each time, and in the default context the forwarded tree has no object or
\* array node of the caller's in it.
HeldArgsUntouched ==
  \A c \in Chains :
    /\ DeepEqual(held[c].obj, held[c].orig)
    /\ \A i \in DOMAIN held[c].sent : held[c].sent[i] = held[c].sent[1]
    /\ (Running(c) /\ ~Observed(c).includeDeleted) =>
         \A i \in DOMAIN held[c].sent : ~HasCallerNode(held[c].sent[i])

\* a held object with a relation selection in it has been passed twice in the
\* default context
SelectionPassedTwice ==
  \E c \in Chains :
    /\ Len(held[c].sent) >= 2
    /\ Observed(c) = DefaultContext
    /\ ScopedRead(c)
    /\ isPlainObject(Get(Get(held[c].obj, "include"), "posts"))

\* the step in which the engine answers the call of chain c
Answering(c) == pc[c] = "forwarded" /\ pc'[c] = "settled"
SoftDelete(c) ==
  /\ call[c].op \in REMOVE_OPERATIONS
  /\ call[c].model \in softDeleteModels
  /\ ~Observed(c).hardDelete
HardDelete(c) ==
  /\ call[c].op \in REMOVE_OPERATIONS
  /\ call[c].model \in softDeleteModels
  /\ Observed(c).hardDelete
Without(o, k) == [ j \in DOMAIN o.v \ {k} |-> o.v[j] ]
CallerData(c) ==
  IF isPlainObject(Get(call[c].args, "data")) THEN Get(call[c].args, "data") ELSE FObj(NoKeys)
\* the fields in which the store after the step differs from the store before
FieldsWritten ==
  { k \in {"id", "email", "name", "title", SOFT_DELETE_FIELD} :
      \E r \in db, q \in db' :
        /\ r.model = q.model /\ r.id = q.id
        /\ k \in DOMAIN r.f /\ r.f[k] # q.f[k] }

\* C2, as stated: a delete / deleteMany made without hardDelete removes no
\* row and is forwarded as an update that sets deletedAt and nothing else.
SoftDeleteOnlySetsDeletedAt ==
  [][ \A c \in Chains : (Answering(c) /\ SoftDelete(c)) =>
        /\ Cardinality(db') = Cardinality(db)
        /\ fwd[c].op \in DATA_OPERATIONS
        /\ DOMAIN Get(fwd[c].args, "data").v = {SOFT_DELETE_FIELD}
        /\ FieldsWritten \subseteq {SOFT_DELETE_FIELD} ]_vars

\* C2: a delete / deleteMany made without hardDelete (default context or a
\* withDeleted view) removes no row: it is forwarded as update / updateMany
\* whose data is a copy of the data the caller passed with deletedAt set to
\* the current time, so that it writes deletedAt and the fields of the
\* caller's data and nothing else, and the caller gets the updated rows,
\* their deletedAt non-null.
SoftDeleteKeepsRows ==
  [][ \A c \in Chains : (Answering(c) /\ SoftDelete(c)) =>
        /\ Ids(db') = Ids(db)
        /\ Cardinality(db') = Cardinality(db)
        /\ fwd[c].op = (IF call[c].op = "delete" THEN "update" ELSE "updateMany")
        /\ Get(Get(fwd[c].args, "data"), SOFT_DELETE_FIELD) \in { DateV(n) : n \in 1..now }
        /\ Plain(FObj(Without(Get(fwd[c].args, "data"), SOFT_DELETE_FIELD)))
             = Plain(FObj(Without(CallerData(c), SOFT_DELETE_FIELD)))
        /\ ~HasCallerNode(fwd[c].args)
        /\ FieldsWritten \subseteq {SOFT_DELETE_FIELD} \cup DOMAIN CallerData(c).v
        /\ res'[c].error = "" =>
             /\ res'[c].rows \subseteq db'
             /\ \A r \in res'[c].rows : IsDeleted(r) ]_vars

\* a delete in the default context has soft-deleted a visible row, and one
\* through the withDeleted view has too
RowSoftDeleted ==
  \E c \in Chains :
    /\ Answered(c) /\ SoftDelete(c) /\ call[c].op = "delete"
    /\ call[c].via \in {<<>>, <<"withDeleted">>}
    /\ res[c].rows # {}
    /\ ~Has(call[c].args, "data")
    /\ \A r \in res[c].rows : r.f[SOFT_DELETE_FIELD] = DateV(MaxClock)

\* C3: under the hard-delete context delete / deleteMany goes to the physical
\* delete with the caller's arguments; when the engine carries it out the
\* store loses exactly the rows the caller's filter matches (the one row, for
\* delete), soft-deleted or not, the row count falls by their number, and no
\* later call, through whatever view, returns a row that is not in the store.
HardDeleteRemovesMatched ==
  [][ /\ \A c \in Chains : (Answering(c) /\ HardDelete(c)) =>
           /\ fwd[c].op = call[c].op
           /\ DeepEqual(fwd[c].args,
                        IF isPlainObject(call[c].args) THEN call[c].args ELSE FObj(NoKeys))
           /\ res'[c].error = "" =>
                LET removed == IF call[c].op = "delete"
                               THEN First(CallerMatched(c)) ELSE CallerMatched(c)
                IN /\ db' = db \ removed
                   /\ Cardinality(db') = Cardinality(db) - Cardinality(removed)
                   /\ res'[c].rows = removed
           /\ res'[c].error # "" => db' = db
      /\ Ids(db') \subseteq Ids(db)
      /\ \A c \in Chains : (Answering(c) /\ ~HardDelete(c)) => res'[c].rows \subseteq db'
    ]_vars

\* a hard deleteMany has removed a soft-deleted row together with a visible one
BothKindsRemoved ==
  \E c \in Chains :
    /\ Answered(c) /\ HardDelete(c) /\ call[c].op = "deleteMany"
    /\ \E r \in res[c].rows : IsDeleted(r)
    /\ \E r \in res[c].rows : ~IsDeleted(r)
    /\ res[c].rows \cap db = {}

\* C7: a row that a successful default-context delete has soft-deleted stays
\* out of every later default-context root read and in every later
\* withDeleted read whose filter matches it, until a hard delete removes it
\* or an update sets its deletedAt to null -- and nothing else ends that.
Entombment ==
  \A c \in Chains :
    (Answered(c) /\ ScopedRead(c)) =>
         IF Observed(c) = DefaultContext
         THEN Ids(res[c].rows) \cap tomb = {}
         ELSE \A r \in CallerMatched(c) : <<r.model, r.id>> \in tomb => r \in res[c].rows
SoftDeletedStaysHidden ==
  [][ /\ \A c \in Chains :
           (Answering(c) /\ SoftDelete(c) /\ call[c].op = "delete"
             /\ Observed(c) = DefaultContext /\ res'[c].error = "") =>
             \A r \in res'[c].rows :
               /\ IsDeleted(r)
               /\ <<r.model, r.id>> \in Ids({ q \in db : ~IsDeleted(q) })
                    => <<r.model, r.id>> \in tomb'
      /\ Entombment'
      /\ tomb \ tomb' # {} =>
           \E c \in Chains :
             /\ Answering(c)
             /\ \/ fwd[c].op \in REMOVE_OPERATIONS
                \/ /\ fwd[c].op \in DATA_OPERATIONS
                   /\ Get(Get(fwd[c].args, "data"), SOFT_DELETE_FIELD) = Null ]_vars

\* after a default-context delete soft-deleted a row, a default-context
\* lookup of it has found nothing
LookupAfterDelete ==
  \E c \in Chains :
    /\ pc[c] = "settled" /\ call[c].op = "findUnique" /\ Observed(c) = DefaultContext
    /\ res[c].rows = {}
    /\ \E r \in CallerMatched(c) : <<r.model, r.id>> \in tomb

\* the rows of the call's entity that are not soft-deleted
Visible(c) == { r \in RowsOf(db, call[c].model) : ~IsDeleted(r) }
\* the views chain c entered on the way to its call: those its transactions
\* were opened through and the one the call is made through
EnteredViews(c) == { amb[c][i].via : i \in DOMAIN amb[c] } \cup {call[c].via}
ViaOverride(c) == \E v \in EnteredViews(c) : v # <<>>
ViaHardDelete(c) == \E v \in EnteredViews(c) : v # <<>> /\ v[Len(v)] = "hardDelete"
InOverride(c) == \E i \in DOMAIN amb[c] : amb[c][i].via # <<>>

\* C5: of calls launched together and interleaved at their suspension points,
\* one made through the default client outside any override is scoped -- it
\* is forwarded with the deletion predicate and counts the visible rows only
\* -- and one made through an override view is forwarded as it is and counts
\* all rows, whatever the other chains are doing.
EachCallByItsOwnContext ==
  \A c \in Chains :
    Sent(c) =>
      IF call[c].via # <<>>
      THEN /\ fwd[c].args = call[c].args
           /\ Answered(c) => res[c].rows = RowsOf(db, call[c].model)
      ELSE ~InOverride(c) =>
             /\ Get(fwd[c].args, "where") = NotDeleted
             /\ Answered(c) => res[c].rows = Visible(c)

\* two calls in flight together, one default and one through a view, have
\* both been answered, with different counts
DifferentCountsTogether ==
  \E c, d \in Chains :
    /\ Answered(c) /\ Answered(d)
    /\ call[c].via = <<>> /\ amb[c] = <<>>
    /\ call[d].via = <<"withDeleted">>
    /\ Cardinality(res[c].rows) < Cardinality(res[d].rows)

\* C8: every call of a chain observes the overrides the chain entered -- the
\* view a transaction was opened through counts for every call made inside
\* its callback, on the tx handle too -- and a chain that entered none
\* observes the default context and is scoped.
ChainObservesItsOverride ==
  \A c \in Chains :
    Running(c) =>
      /\ Observed(c).includeDeleted = ViaOverride(c)
      /\ Observed(c).hardDelete = ViaHardDelete(c)
      /\ (Sent(c) /\ call[c].op = "count") =>
           IF ViaOverride(c)
           THEN /\ fwd[c].args = call[c].args
                /\ Answered(c) => res[c].rows = RowsOf(db, call[c].model)
           ELSE /\ Get(fwd[c].args, "where") = NotDeleted
                /\ Answered(c) => res[c].rows = Visible(c)
      /\ (Sent(c) /\ call[c].op = "deleteMany") =>
           fwd[c].op = (IF ViaHardDelete(c) THEN "deleteMany" ELSE "updateMany")

\* a count on the tx handle, inside a transaction opened through the
\* withDeleted view, has counted a soft-deleted row
CountedInsideOverrideTx ==
  \E c \in Chains :
    /\ Answered(c) /\ call[c].op = "count" /\ call[c].via = <<>>
    /\ amb[c] # <<>> /\ amb[c][1].via = <<"withDeleted">>
    /\ \E r \in res[c].rows : IsDeleted(r)

\* C9: an override stays with the chain that entered it: a call made on the
\* default client by a chain that is inside no override callback observes
\* {hardDelete: false, includeDeleted: false} and is scoped, whatever calls were
\* made through views before it or are in flight in other chains, and no step
\* of one chain changes what another chain has entered or observes.
OverrideStaysInItsChain ==
  [][ \A c \in Chains :
        /\ (Running(c) /\ call[c].via = <<>> /\ ~InOverride(c))' =>
             /\ Observed(c)' = DefaultContext
             /\ Sent(c)' => Get(fwd'[c].args, "where") = NotDeleted
        /\ (pc'[c] # pc[c] \/ amb'[c] # amb[c]) =>
             \A d \in Chains \ {c} : amb'[d] = amb[d] /\ call'[d] = call[d] ]_vars

\* a default-client call is scoped while a sibling chain, inside a transaction
\* opened through the withDeleted view, has its own call answered unscoped
DefaultBesideOverride ==
  \E c, d \in Chains :
    /\ Sent(c) /\ call[c].via = <<>> /\ amb[c] = <<>>
    /\ Get(fwd[c].args, "where") = NotDeleted
    /\ amb[d] # <<>> /\ amb[d][1].via = <<"withDeleted">>
    /\ Answered(d) /\ \E r \in res[d].rows : IsDeleted(r)

\* C10: in every context a call observes or a transaction callback runs
\* under, hardDelete implies includeDeleted, however withDeleted() and
\* hardDelete() are nested or chained; and a chain that entered no override
\* observes {hardDelete: false, includeDeleted: false}.
HardDeleteImpliesIncludeDeleted ==
  \A c \in Chains :
    /\ \A i \in DOMAIN amb[c] :
         getSoftDeleteContext(amb[c][i].store).hardDelete
           => getSoftDeleteContext(amb[c][i].store).includeDeleted
    /\ Running(c) =>
         /\ Observed(c).hardDelete => Observed(c).includeDeleted
         /\ ~ViaOverride(c) => Observed(c) = DefaultContext

\* a call through withDeleted(), chained on hardDelete() or made inside a
\* transaction opened through hardDelete(), is running
WithDeletedAfterHardDelete ==
  \E c \in Chains :
    /\ Running(c)
    /\ \/ call[c].via = <<"hardDelete", "withDeleted">>
       \/ call[c].via = <<"withDeleted">> /\ amb[c] # <<>>
            /\ amb[c][1].via = <<"hardDelete">>
    /\ Observed(c).includeDeleted

\* the selection container of the caller's arguments
Container(c) ==
  IF isPlainObject(Get(call[c].args, "include")) THEN Get(call[c].args, "include")
  ELSE Get(call[c].args, "select")
\* the counts returned for soft-deletable list relations
SoftCounts(c) ==
  { item \in res[c].sel :
      /\ item.kind = "count"
      /\ relationFieldsByModel[item.model][item.field].targetModel \in softDeleteModels }
\* the where the caller gave for the counted relation
CountWhere(c, item) ==
  IF item.model = call[c].model
  THEN Get(Get(Get(Get(Container(c), "_count"), "select"), item.field), "where")
  ELSE Undef
\* the related rows the caller's own count selection counts
CountedByCaller(c, item) ==
  { r \in Related(db, item.row, item.model, item.field) :
      Matches(db, relationFieldsByModel[item.model][item.field].targetModel,
              CountWhere(c, item), r) }

\* C11, as stated: a _count of a soft-deletable list relation, whatever shape
\* the sub-selection has, counts in a default-context read the related rows
\* with deletedAt null, and through withDeleted() all related rows.
CountsVisibleOnly ==
  \A c \in Chains :
    (Answered(c) /\ call[c].op \in ROOT_SCOPED_OPERATIONS) =>
      \A item \in SoftCounts(c) :
        item.n = Cardinality(IF Observed(c) = DefaultContext
                             THEN { r \in CountedByCaller(c, item) : ~IsDeleted(r) }
                             ELSE CountedByCaller(c, item))

\* C11, for the sub-selections given as { select: { ... } }: those are counted
\* as the claim says
SelectedCountsVisibleOnly ==
  \A c \in Chains :
    (Answered(c) /\ call[c].op \in ROOT_SCOPED_OPERATIONS
      /\ Get(Container(c), "_count") # Bool(TRUE)) =>
      \A item \in SoftCounts(c) :
        item.n = Cardinality(IF Observed(c) = DefaultContext
                             THEN { r \in CountedByCaller(c, item) : ~IsDeleted(r) }
                             ELSE CountedByCaller(c, item))

\* a default-context read with _count: true has counted a soft-deleted post
DeletedPostCounted ==
  \E c \in Chains :
    /\ Answered(c) /\ call[c].op \in ROOT_SCOPED_OPERATIONS
    /\ Observed(c) = DefaultContext
    /\ Get(Container(c), "_count") = Bool(TRUE)
    /\ \E item \in SoftCounts(c) :
         item.n > Cardinality({ r \in CountedByCaller(c, item) : ~IsDeleted(r) })

\* the soft-deletable list relations the caller selects at the root
SelectedLists(c) ==
  IF ~isPlainObject(Container(c)) THEN {}
  ELSE { f \in DOMAIN Container(c).v :
           /\ IsRelation(call[c].model, f)
           /\ relationFieldsByModel[call[c].model][f].isList
           /\ relationFieldsByModel[call[c].model][f].targetModel \in softDeleteModels
           /\ (Container(c).v[f] = Bool(TRUE) \/ isPlainObject(Container(c).v[f])) }
\* the rows returned under the relation f of the root row
ReturnedUnder(c, root, f) ==
  { item.row : item \in { i \in res[c].sel :
                 i.kind = "row" /\ i.model = call[c].model /\ i.id = root.id /\ i.field = f } }
\* the selection container forwarded to the engine
Forwarded(c) ==
  IF isPlainObject(Get(call[c].args, "include")) THEN Get(fwd[c].args, "include")
  ELSE Get(fwd[c].args, "select")

\* C12: in the default context, whatever the operation that carries include /
\* select, no soft-deleted row comes back through a list relation at any depth;
\* a list relation selected at the root returns the related rows with deletedAt
\* null that match the caller's nested where, and is forwarded with
\* where = AND[caller's where, deletedAt null], or the bare predicate.
ListsFetchedWithPredicate ==
  \A c \in Chains :
    (Answered(c) /\ Observed(c) = DefaultContext) =>
      /\ \A item \in res[c].sel :
           (item.kind = "row" /\ item.list
             /\ relationFieldsByModel[item.model][item.field].targetModel \in softDeleteModels)
           => ~IsDeleted(item.row)
      /\ \A f \in SelectedLists(c) :
           /\ \A root \in res[c].rows :
                ReturnedUnder(c, root, f) =
                  { r \in Related(db, root, call[c].model, f) :
                      /\ ~IsDeleted(r)
                      /\ Matches(db, relationFieldsByModel[call[c].model][f].targetModel,
                                 Get(Container(c).v[f], "where"), r) }
           /\ DeepEqual(Get(Get(Forwarded(c), f), "where"),
                        IF hasWhere(Container(c).v[f])
                        THEN FObj("AND" :> FArr(<<Container(c).v[f].v["where"], NotDeleted>>))
                        ELSE NotDeleted)

\* a default-context create with include has answered with the posts of the
\* new user, one of them soft-deleted and held back
CreatedWithHiddenPost ==
  \E c \in Chains :
    /\ Answered(c) /\ Observed(c) = DefaultContext /\ call[c].op = "create"
    /\ \E root \in res[c].rows :
         /\ ReturnedUnder(c, root, "posts") # {}
         /\ \E r \in Related(db, root, "User", "posts") : IsDeleted(r)

\* the call of chain c has been through the rewriters
Rewritten(c) == Sent(c) /\ ~Observed(c).includeDeleted
CallerWhere(c) == Get(call[c].args, "where")
\* the root where is forwarded inside an AND with the predicate
RootWrapped(c) ==
  /\ call[c].model \in softDeleteModels
  /\ fwd[c].op \in ROOT_SCOPED_OPERATIONS \ UNIQUE_READ_OPERATIONS
  /\ CallerWhere(c).t \notin {"null", "undef"}
\* what the caller's where has become in the forwarded tree
ScopedWhere(c) ==
  IF RootWrapped(c) THEN Get(fwd[c].args, "where").v["AND"].v[1]
  ELSE Get(fwd[c].args, "where")
\* the relation fields of the model of c the caller's where filters by
FilteredBy(c, list) ==
  IF ~isPlainObject(CallerWhere(c)) THEN {}
  ELSE { f \in DOMAIN CallerWhere(c).v :
           /\ IsRelation(call[c].model, f)
           /\ relationFieldsByModel[call[c].model][f].isList = list
           /\ isPlainObject(CallerWhere(c).v[f]) }
TargetOf(c, f) == relationFieldsByModel[call[c].model][f].targetModel
DeletedNotNull == FObj(SOFT_DELETE_FIELD :> FObj("not" :> Null))

\* C13: a list-relation filter is forwarded with the operators the caller
\* gave and no other; for a soft-deletable target the sub-filter of some and
\* of none is AND[scoped sub-filter, deletedAt null] and that of every is
\* OR[deletedAt not null, scoped sub-filter]; for another target the
\* sub-filter is the scoped sub-filter, with the keys the caller gave.
ListRelationFilterRewritten ==
  \A c \in Chains :
    Rewritten(c) =>
      \A f \in FilteredBy(c, TRUE) :
        LET given == CallerWhere(c).v[f]
            sent == ScopedWhere(c).v[f]
        IN /\ DOMAIN sent.v = DOMAIN given.v
           /\ \A operator \in DOMAIN given.v :
                isPlainObject(given.v[operator]) =>
                  LET scoped == scopeWhere(TargetOf(c, f), given.v[operator])
                  IN IF TargetOf(c, f) \notin softDeleteModels
                     THEN /\ DeepEqual(sent.v[operator], scoped)
                          /\ DOMAIN sent.v[operator].v = DOMAIN given.v[operator].v
                     ELSE DeepEqual(sent.v[operator],
                                    IF operator = "every"
                                    THEN FObj("OR" :> FArr(<<DeletedNotNull, scoped>>))
                                    ELSE FObj("AND" :> FArr(<<scoped, NotDeleted>>)))

\* a filter with some and every on a soft-deletable list relation, the
\* sub-filter itself holding a relation filter, has been forwarded
SomeAndEveryForwarded ==
  \E c \in Chains :
    /\ Rewritten(c)
    /\ \E f \in FilteredBy(c, TRUE) :
         /\ TargetOf(c, f) \in softDeleteModels
         /\ {"some", "every"} \subseteq DOMAIN CallerWhere(c).v[f].v
         /\ "none" \notin DOMAIN CallerWhere(c).v[f].v
         /\ Has(CallerWhere(c).v[f].v["every"], "author")

\* the sub-filter sub as it is forwarded for the target: scoped, and with the
\* predicate when tightened
AsForwarded(targetModel, sub, tightened) ==
  IF tightened /\ targetModel \in softDeleteModels
  THEN FObj("AND" :> FArr(<<scopeWhere(targetModel, sub), NotDeleted>>))
  ELSE scopeWhere(targetModel, sub)

\* C14: a to-one relation filter with an explicit is / isNot is forwarded with
\* the keys the caller gave, is tightened with deletedAt null when the target
\* is soft-deletable, isNot scoped but never tightened; a shorthand object is
\* tightened as an is; for a target without deletedAt neither form gains the
\* predicate.
ToOneRelationFilterRewritten ==
  \A c \in Chains :
    Rewritten(c) =>
      \A f \in FilteredBy(c, FALSE) :
        LET given == CallerWhere(c).v[f]
            sent == ScopedWhere(c).v[f]
            soft == TargetOf(c, f) \in softDeleteModels
        IN IF Has(given, "is") \/ Has(given, "isNot")
           THEN /\ DOMAIN sent.v = DOMAIN given.v
                /\ isPlainObject(Get(given, "is")) =>
                     /\ DeepEqual(sent.v["is"], AsForwarded(TargetOf(c, f), given.v["is"], TRUE))
                     /\ ~soft => DOMAIN sent.v["is"].v = DOMAIN given.v["is"].v
                /\ isPlainObject(Get(given, "isNot")) =>
                     /\ DeepEqual(sent.v["isNot"],
                                  AsForwarded(TargetOf(c, f), given.v["isNot"], FALSE))
                     /\ DOMAIN sent.v["isNot"].v = DOMAIN given.v["isNot"].v
           ELSE /\ DeepEqual(sent, AsForwarded(TargetOf(c, f), given, TRUE))
                /\ ~soft => DOMAIN sent.v = DOMAIN given.v

\* a filter with both is and isNot on a soft-deletable to-one relation has been
\* forwarded
IsAndIsNotForwarded ==
  \E c \in Chains :
    /\ Rewritten(c)
    /\ \E f \in FilteredBy(c, FALSE) :
         /\ TargetOf(c, f) \in softDeleteModels
         /\ isPlainObject(Get(CallerWhere(c).v[f], "is"))
         /\ isPlainObject(Get(CallerWhere(c).v[f], "isNot"))

\* whether a filter tree holds a relation filter, at the root or under the
\* logical operators
RECURSIVE HasRelationFilter(_, _)
HasRelationFilter(modelName, where) ==
  /\ isPlainObject(where)
  /\ \E key \in DOMAIN where.v :
       LET value == where.v[key]
       IN IF key \in LOGICAL_OPERATORS
          THEN IF value.t = "arr"
               THEN \E i \in DOMAIN value.v : HasRelationFilter(modelName, value.v[i])
               ELSE HasRelationFilter(modelName, value)
          ELSE IsRelation(modelName, key) /\ isPlainObject(value)
\* a root-scoped read of a soft-deletable entity has been through the rewriters
RootScoped(c) ==
  /\ Rewritten(c)
  /\ call[c].model \in softDeleteModels
  /\ call[c].op \in ROOT_SCOPED_OPERATIONS
\* the filter `given` as the root scoper forwards it for the call of chain c
RootMerged(c, given) ==
  IF call[c].op \in UNIQUE_READ_OPERATIONS
  THEN FObj((SOFT_DELETE_FIELD :> Null) @@ given.v)
  ELSE FObj("AND" :> FArr(<<given, NotDeleted>>))

\* C15, as stated: the forwarded root where is built from the caller's filter
\* itself, kept verbatim: for a unique lookup a flat copy of it with deletedAt
\* null merged in, for the other root-scoped operations AND[caller's filter,
\* deletedAt null], or the bare predicate when the caller gave no filter.
RootWhereKeepsCallerFilter ==
  \A c \in Chains :
    RootScoped(c) =>
      /\ isPlainObject(CallerWhere(c)) =>
           DeepEqual(Get(fwd[c].args, "where"), RootMerged(c, CallerWhere(c)))
      /\ CallerWhere(c) = Undef => DeepEqual(Get(fwd[c].args, "where"), NotDeleted)

\* C15, amended: the forwarded root where is built from the caller's filter as
\* the filter rewriter leaves it (its relation sub-filters scoped), which is the
\* caller's filter verbatim when it holds no relation filter; a unique lookup
\* has deletedAt null among the keys of that flat copy, whatever deletedAt the
\* caller gave, and no AND around it.
RootWhereMerged ==
  \A c \in Chains :
    RootScoped(c) =>
      /\ isPlainObject(CallerWhere(c)) =>
           /\ DeepEqual(Get(fwd[c].args, "where"),
                        RootMerged(c, scopeWhere(call[c].model, CallerWhere(c))))
           /\ ~HasRelationFilter(call[c].model, CallerWhere(c)) =>
                DeepEqual(Get(fwd[c].args, "where"), RootMerged(c, CallerWhere(c)))
           /\ call[c].op \in UNIQUE_READ_OPERATIONS =>
                /\ DOMAIN fwd[c].args.v["where"].v
                     = DOMAIN CallerWhere(c).v \cup {SOFT_DELETE_FIELD}
                /\ fwd[c].args.v["where"].v[SOFT_DELETE_FIELD] = Null
      /\ CallerWhere(c) = Undef => DeepEqual(Get(fwd[c].args, "where"), NotDeleted)

\* a unique lookup whose filter names deletedAt has been forwarded
UniqueLookupNamingDeletedAt ==
  \E c \in Chains :
    /\ RootScoped(c)
    /\ call[c].op \in UNIQUE_READ_OPERATIONS
    /\ Has(CallerWhere(c), SOFT_DELETE_FIELD)
    /\ CallerWhere(c).v[SOFT_DELETE_FIELD] # Null

\* the rows of the store the caller's unique key names, deleted or not
Keyed(c) ==
  { r \in RowsOf(db, call[c].model) : Matches(db, call[c].model, CallerWhere(c), r) }
\* the engine answers the default-context upsert of chain c
UpsertAnswering(c) ==
  /\ Answering(c)
  /\ call[c].op = "upsert"
  /\ Observed(c) = DefaultContext

\* C16: a default-context upsert is forwarded with the caller's where as it
\* is; when its key names a row, soft-deleted or not, that row is updated and
\* no row is created; when its key names no row, one row is created; and no
\* soft-deleted row comes back through a list relation of its include.
UpsertNotRootScoped ==
  [][ \A c \in Chains :
        UpsertAnswering(c) =>
          /\ DeepEqual(Get(fwd[c].args, "where"), CallerWhere(c))
          /\ res'[c].error = ""
          /\ Keyed(c) # {} =>
               /\ Ids(db') = Ids(db)
               /\ Ids(res'[c].rows) = Ids(Keyed(c))
               /\ \A r \in res'[c].rows :
                    /\ r \in db'
                    /\ r.f["name"] = call[c].args.v["update"].v["name"]
                    /\ IsDeleted(r) = (\E q \in Keyed(c) : IsDeleted(q))
          /\ Keyed(c) = {} =>
               /\ Cardinality(res'[c].rows) = 1
               /\ db' = db \cup res'[c].rows
               /\ Ids(res'[c].rows) \cap Ids(db) = {}
          /\ \A item \in res'[c].sel : (item.kind = "row" /\ item.list) => ~IsDeleted(item.row)
    ]_vars

\* a default-context upsert has answered with the soft-deleted row its key
\* names, updated, and has held back that row's soft-deleted post
DeletedRowUpserted ==
  \E c \in Chains :
    /\ Answered(c) /\ call[c].op = "upsert" /\ Observed(c) = DefaultContext
    /\ \E r \in res[c].rows :
         /\ IsDeleted(r)
         /\ r.f["name"] = Str("n1")
         /\ \E q \in Related(db, r, "User", "posts") : IsDeleted(q)
         /\ \E q \in ReturnedUnder(c, r, "posts") : ~IsDeleted(q)

\* the list chain c handed to $transaction holds a call obtained from a view
FromView(c) ==
  \E i \in DOMAIN batch[c].items : batch[c].items[i].via # <<>>

\* C17: a list holding a call obtained from an override view, handed to the
\* array-style $transaction, is rejected with the engine's error about Prisma
\* Client promises and answers nothing, for no element of the list.
ViewBatchRejected ==
  \A c \in Chains :
    (batch[c].stage = "done" /\ FromView(c)) =>
      /\ batch[c].error = "Prisma Client promises"
      /\ batch[c].out = <<>>

\* the list of the withDeleted() test, findMany and count, has been handed in
\* and rejected
WithDeletedBatchHandedIn ==
  \E c \in Chains :
    /\ batch[c].stage = "done"
    /\ Len(batch[c].items) = 2
    /\ \A i \in DOMAIN batch[c].items : batch[c].items[i].via = <<"withDeleted">>
    /\ batch[c].items[1].op = "findMany" /\ batch[c].items[2].op = "count"
    /\ batch[c].error # ""

\* the to-one relations the caller selects at the root
SelectedToOne(c) ==
  IF ~isPlainObject(Container(c)) THEN {}
  ELSE { f \in DOMAIN Container(c).v :
           IsRelation(call[c].model, f) /\ ~relationFieldsByModel[call[c].model][f].isList }
\* the soft-deletable list relations of modelName selected by a flag in `given`
FlaggedLists(modelName, given) ==
  IF ~isPlainObject(given) THEN {}
  ELSE { g \in DOMAIN given.v :
           /\ IsRelation(modelName, g)
           /\ relationFieldsByModel[modelName][g].isList
           /\ relationFieldsByModel[modelName][g].targetModel \in softDeleteModels
           /\ given.v[g] = Bool(TRUE) }

\* C18: a to-one relation selection is forwarded without a deletion predicate,
\* whatever its target: a flag stays the flag; a nested object keeps its keys,
\* its where (if any) is the scoped where with the caller's own keys and no AND
\* around it, and the list relations selected inside it are scoped; the related
\* row comes back whether soft-deleted or not.
ToOneSelectionNotFiltered ==
  \A c \in Chains :
    Rewritten(c) =>
      \A f \in SelectedToOne(c) :
        LET given == Container(c).v[f]
            sent == Forwarded(c).v[f]
        IN /\ ~isPlainObject(given) => sent = given
           /\ isPlainObject(given) =>
                /\ DOMAIN sent.v = DOMAIN given.v
                /\ hasWhere(given) =>
                     /\ DeepEqual(sent.v["where"], scopeWhere(TargetOf(c, f), given.v["where"]))
                     /\ isPlainObject(given.v["where"]) =>
                          DOMAIN sent.v["where"].v = DOMAIN given.v["where"].v
                /\ \A key \in {"include", "select"} :
                     \A g \in FlaggedLists(TargetOf(c, f), Get(given, key)) :
                       DeepEqual(sent.v[key].v[g], FObj("where" :> NotDeleted))
           /\ (Answered(c) /\ (given = Bool(TRUE) \/ isPlainObject(given)) /\ ~hasWhere(given)) =>
                \A root \in res[c].rows :
                  ReturnedUnder(c, root, f) = Related(db, root, call[c].model, f)

\* a default-context read has returned a soft-deleted author through a to-one
\* selection, with that author's visible posts only
DeletedAuthorSelected ==
  \E c \in Chains :
    /\ Answered(c) /\ Observed(c) = DefaultContext /\ call[c].model = "Post"
    /\ isPlainObject(Get(Container(c), "author"))
    /\ \E root \in res[c].rows : \E r \in ReturnedUnder(c, root, "author") : IsDeleted(r)

\* `sent` is `given` without a predicate gained: an object with the keys the
\* caller gave (no AND around it, no deletedAt beside them), or the same value
NoPredicateOn(sent, given) ==
  IF isPlainObject(given) THEN isPlainObject(sent) /\ DOMAIN sent.v = DOMAIN given.v
  ELSE sent.t = given.t
\* what the caller's where has become in the forwarded tree, in any context
SentWhere(c) == IF Rewritten(c) THEN ScopedWhere(c) ELSE Get(fwd[c].args, "where")
\* the entities that declare no deletedAt attribute
DeclaringNoDeletedAt ==
  { m.name : m \in { x \in dmmfModels : \A f \in x.fields : f.name # "deletedAt" } }
\* the relation fields of the call's model whose target declares no deletedAt
Plainly(c, names) ==
  { f \in names : IsRelation(call[c].model, f) /\ TargetOf(c, f) \in DeclaringNoDeletedAt }
KeysOf(x) == IF isPlainObject(x) THEN DOMAIN x.v ELSE {}

\* C19: for an entity without deletedAt, in every context: the where of a call
\* on it is forwarded without a predicate (and is absent when the caller gave
\* none), a read returns every row the caller's filter matches, and delete /
\* deleteMany is forwarded as itself, without data, and removes the rows; a
\* relation sub-filter or a selection that targets such an entity, in a call on
\* any entity, is forwarded without a predicate.
PlainEntityNeverScoped ==
  \A c \in Chains :
    Sent(c) =>
      /\ call[c].model \in DeclaringNoDeletedAt =>
           /\ NoPredicateOn(Get(fwd[c].args, "where"), CallerWhere(c))
           /\ ~HasRelationFilter(call[c].model, CallerWhere(c)) =>
                DeepEqual(Get(fwd[c].args, "where"), CallerWhere(c))
           /\ (Answered(c) /\ call[c].op = "findMany"
                /\ ~HasRelationFilter(call[c].model, CallerWhere(c))) =>
                res[c].rows = { r \in RowsOf(db, call[c].model) :
                                  Matches(db, call[c].model, CallerWhere(c), r) }
           /\ call[c].op \in REMOVE_OPERATIONS =>
                /\ fwd[c].op = call[c].op
                /\ ~Has(fwd[c].args, "data")
                /\ Answered(c) => res[c].rows \cap db = {}
      /\ \A f \in Plainly(c, KeysOf(CallerWhere(c))) :
           LET given == CallerWhere(c).v[f]
               sent == SentWhere(c).v[f]
           IN /\ NoPredicateOn(sent, given)
              /\ \A operator \in KeysOf(given) \cap {"some", "none", "every", "is", "isNot"} :
                   NoPredicateOn(sent.v[operator], given.v[operator])
      /\ \A f \in Plainly(c, KeysOf(Container(c))) :
           LET given == Container(c).v[f]
               sent == Forwarded(c).v[f]
           IN /\ NoPredicateOn(sent, given)
              /\ NoPredicateOn(Get(sent, "where"), Get(given, "where"))
      /\ (isPlainObject(Get(Get(Container(c), "_count"), "select"))
           /\ \A f \in DOMAIN Container(c).v["_count"].v["select"].v :
                f \in Plainly(c, {f})) =>
           DeepEqual(Forwarded(c).v["_count"], Container(c).v["_count"])

\* a default-context deleteMany on an entity without deletedAt has removed a
\* row that a soft-deletable row is related to
PlainRowRemoved ==
  \E c \in Chains :
    /\ Answered(c) /\ Observed(c) = DefaultContext
    /\ call[c].model = "Comment" /\ call[c].op = "deleteMany"
    /\ res[c].rows # {}

\* a value that is present where an object is expected and is none
Malformed(x) == x.t \notin {"obj", "undef"}
\* the operators of relation filters
RELATION_OPERATORS == {"some", "none", "every", "is", "isNot"}
\* the relation filters of the caller's where whose operator holds such a value
MalformedUnder(c) ==
  { <<f, operator>> \in (FilteredBy(c, TRUE) \cup FilteredBy(c, FALSE)) \X RELATION_OPERATORS :
      Has(CallerWhere(c).v[f], operator) /\ Malformed(CallerWhere(c).v[f].v[operator]) }
\* the selection entries of the caller that hold such a value, flags aside
MalformedEntries(c) ==
  { f \in KeysOf(Container(c)) :
      Malformed(Container(c).v[f]) /\ Container(c).v[f].t # "bool" }

\* C20, as stated: whatever the context, a value that is no plain object in the
\* place of the argument tree, of a where, of the sub-filter under a relation
\* operator or of a selection entry is forwarded as it is, deep-equal to what
\* the caller gave.
MalformedForwardedUnmodified ==
  \A c \in Chains :
    Sent(c) =>
      /\ Malformed(call[c].args) => DeepEqual(fwd[c].args, call[c].args)
      /\ Malformed(CallerWhere(c)) => DeepEqual(Get(fwd[c].args, "where"), CallerWhere(c))
      /\ \A p \in MalformedUnder(c) :
           DeepEqual(SentWhere(c).v[p[1]].v[p[2]], CallerWhere(c).v[p[1]].v[p[2]])
      /\ \A f \in MalformedEntries(c) :
           DeepEqual(Forwarded(c).v[f], Container(c).v[f])

\* C20, where it holds: a selection entry that is no plain object and no flag
\* is forwarded as it is, and so is every such value through an override view
\* and under a relation operator whose target declares no deletedAt.
MalformedEntryForwarded ==
  \A c \in Chains :
    Sent(c) =>
      /\ \A f \in MalformedEntries(c) : DeepEqual(Forwarded(c).v[f], Container(c).v[f])
      /\ ~Rewritten(c) => DeepEqual(fwd[c].args, call[c].q.args)
      /\ \A p \in MalformedUnder(c) :
           p[1] \in Plainly(c, {p[1]}) =>
             DeepEqual(SentWhere(c).v[p[1]].v[p[2]], CallerWhere(c).v[p[1]].v[p[2]])

\* a default-context read whose every holds a string has been answered by the
\* engine, the string gone from the forwarded filter
MalformedEveryAnswered ==
  \E c \in Chains :
    /\ Answered(c) /\ Observed(c) = DefaultContext
    /\ <<"posts", "every">> \in MalformedUnder(c)
    /\ CallerWhere(c).v["posts"].v["every"] = Str("x")
    /\ DeepEqual(SentWhere(c).v["posts"].v["every"],
                 FObj("OR" :> FArr(<<DeletedNotNull, FObj(NoKeys)>>)))

\* C21: at most one wrapper is ever made per override kind and wrapped object,
\* and each cache holds, for an object, the wrapper made of that object: so
\* withDeleted() / hardDelete() called again, and a delegate read again, give
\* the identical wrapper.
OneWrapperPerKindAndObject ==
  /\ \A i, j \in DOMAIN views.made :
       (views.made[i].cache = views.made[j].cache
         /\ views.made[i].target = views.made[j].target) => i = j
  /\ \A i \in DOMAIN views.made :
       /\ views.made[i].target \in DOMAIN views.cache[views.made[i].cache]
       /\ views.cache[views.made[i].cache][views.made[i].target] = i
  /\ \A c \in Chains : views.ref[c] \in {0} \cup DOMAIN views.made

\* every wrapper has been made and the chain holds, once more, the delegate
\* wrapper it was handed before the later ones were made
FirstDelegateWrapperHeldAgain ==
  \E c \in Chains :
    /\ Len(views.made) = 4
    /\ views.ref[c] = 2
    /\ IsDelegate(views.made[2].target)

\* the delete of chain c takes the physical path: hard-delete context, or an
\* entity without deletedAt
PhysicalPath(c) ==
  /\ call[c].op \in REMOVE_OPERATIONS
  /\ getSoftDeleteContext(call[c].store).hardDelete
     \/ call[c].model \in DeclaringNoDeletedAt

\* C22: a delete or deleteMany on the physical path whose parent delegate
\* does not expose the operation fails at once with the error naming the
\* model and the operation: the store is untouched, nothing is forwarded to
\* the engine before the caller resumes, and no update is made in its place.
MissingDeleteFailsAtOnce ==
  [][\A c \in Chains :
       /\ (pc[c] = "idle" /\ pc'[c] # "idle" /\ PhysicalPath(c)'
             /\ \E d \in Delegates :
                   /\ call'[c].op \notin d
                   /\ call'[c].q = handleDeleteOperationOn(d, call'[c].model, call'[c].op,
                                                          call'[c].args, call'[c].store, now))
           => /\ pc'[c] = "settled"
              /\ res'[c].error = Unsupported(call'[c].model, call'[c].op)
              /\ fwd'[c] = NoFwd /\ held'[c].sent = <<>>
              /\ db' = db
       /\ (pc[c] = "settled" /\ fwd[c] = NoFwd)
           => /\ pc'[c] \in {"settled", "idle"}
              /\ fwd'[c] = NoFwd
              /\ db' = db]_vars

\* a hard delete of users on a delegate without deleteMany has failed
HardDeleteOnBareDelegateFailed ==
  \E c \in Chains :
    /\ pc[c] = "settled" /\ fwd[c] = NoFwd
    /\ call[c].via = <<"hardDelete">> /\ call[c].model = "User"
    /\ res[c].error = "Model 'User' does not support deleteMany."

\* the answer of the engine to the forwarded call of chain c
EngineAnswer(c) == EngineRun(db, call[c].model, fwd[c].op, fwd[c].args)

\* C23: when the forwarded call settles, on the default client and through
\* a view alike, the caller receives the engine's error as the engine raised
\* it (the not-found error of a throw-variant read of a soft-deleted row
\* included) or, with no error, the engine's rows; the store is the one the
\* engine left; the call was forwarded once; and a read that finds no visible
\* row without the engine raising an error gets no error.
EngineFailureUnchanged ==
  [][\A c \in Chains : Answering(c) =>
       /\ Len(held[c].sent) = 1
       /\ \/ /\ res'[c].error = "Engine" /\ res'[c].rows = {} /\ db' = db
          \/ /\ res'[c].error = EngineAnswer(c).error
             /\ res'[c].rows = EngineAnswer(c).rows
             /\ db' = EngineAnswer(c).store
       /\ res'[c].error \in {"Engine", "NotFound", "Validation", "ForeignKey", ""}
       /\ (res'[c].error = "NotFound") => call[c].op \in THROW_OPERATIONS]_vars

\* findUniqueOrThrow on the default client has been rejected with the engine's
\* not-found error although the store holds the row, soft-deleted
NotFoundForSoftDeletedRow ==
  \E c \in Chains :
    /\ pc[c] = "settled" /\ call[c].via = <<>> /\ call[c].op = "findUniqueOrThrow"
    /\ res[c].error = "NotFound"
    /\ \E r \in RowsOf(db, "User") :
         IsDeleted(r) /\ Matches(db, "User", Get(call[c].args, "where"), r)

\* the store without the soft-deleted rows
Shown(store) == { r \in store : ~IsDeleted(r) }

\* C24: a read filtered by a where tree of AND / OR / NOT, leaves, some /
\* none / every and is / shorthand filters, nested, answers exactly the
\* visible rows the caller's filter selects over the store without its
\* soft-deleted rows; and for every row of the entity, the scoped filter over
\* the full store holds iff the caller's filter holds over that store.
ScopedFilterSelectsVisibleMatches ==
  [][\A c \in Chains : Answering(c) =>
       /\ res'[c].error = ""
       /\ res'[c].rows =
            { r \in RowsOf(Shown(db), call[c].model) :
                Matches(Shown(db), call[c].model, CallerWhere(c), r) }
       /\ \A r \in RowsOf(db, call[c].model) :
            Matches(db, call[c].model, scopeWhere(call[c].model, CallerWhere(c)), r)
              <=> Matches(Shown(db), call[c].model, CallerWhere(c), r)]_vars

\* a read of the users all of whose posts are not titled 1 has answered the
\* user whose one post, titled 1, is soft-deleted
EveryOverNotAnswered ==
  \E c \in Chains :
    /\ pc[c] = "settled"
    /\ CallerWhere(c) = COb("posts" :> COb("every" :> COb("NOT" :> Titled(1))))
    /\ \E r \in res[c].rows :
         /\ ~Matches(db, "User", CallerWhere(c), r)
         /\ \E q \in Related(db, r, "User", "posts") : IsDeleted(q)

\* C25: the update / updateMany that replaces a converted delete / deleteMany
\* has the caller's keys and data; each key but data is deeply equal to the
\* caller's; data is the caller's data (an empty object when the caller gave
\* none) with deletedAt set to a time of the clock, never null, whatever
\* deletedAt the caller's data held; that data is what the engine receives;
\* no node of the caller's object is in the update and the caller's object is
\* as it was.
ConvertedDeleteCarriesCallerKeys ==
  \A c \in Chains : (pc[c] # "idle" /\ SoftDelete(c)) =>
    /\ call[c].q.op = (IF call[c].op = "delete" THEN "update" ELSE "updateMany")
    /\ DOMAIN call[c].q.args.v = KeysOf(call[c].args) \cup {"data"}
    /\ \A k \in KeysOf(call[c].args) \ {"data"} :
         Plain(call[c].q.args.v[k]) = Plain(call[c].args.v[k])
    /\ \E n \in 1..now :
         Plain(Get(call[c].q.args, "data"))
           = Plain(Put(CallerData(c), SOFT_DELETE_FIELD, DateV(n)))
    /\ Get(Get(call[c].q.args, "data"), SOFT_DELETE_FIELD) \in { DateV(n) : n \in 1..now }
    /\ ~HasCallerNode(call[c].q.args)
    /\ held[c].obj = held[c].orig
    /\ Sent(c) => Plain(Get(fwd[c].args, "data")) = Plain(Get(call[c].q.args, "data"))
    /\ Answered(c) => \A r \in res[c].rows : IsDeleted(r)

\* a delete whose data asks for deletedAt null has soft-deleted the row
DeleteWithNullDeletedAtAnswered ==
  \E c \in Chains :
    /\ Answered(c) /\ SoftDelete(c) /\ call[c].op = "delete"
    /\ Has(CallerData(c), SOFT_DELETE_FIELD)
    /\ Get(CallerData(c), SOFT_DELETE_FIELD) = Null
    /\ \E r \in res[c].rows : IsDeleted(r)

SCOPED_KEYS == {"where", "include", "select"}

\* C26: of the argument tree handed to the query hook, every top-level key
\* other than where, include and select is forwarded to the engine, deeply
\* equal, and no such key is added: for every operation, entity and context.
OnlyScopedKeysChange ==
  \A c \in Chains : Sent(c) =>
    /\ DOMAIN fwd[c].args.v \ SCOPED_KEYS = KeysOf(call[c].q.args) \ SCOPED_KEYS
    /\ \A k \in KeysOf(call[c].q.args) \ SCOPED_KEYS :
         Plain(fwd[c].args.v[k]) = Plain(call[c].q.args.v[k])

\* a grouped read in the default context went out with its where rewritten
\* and its by and having keys as the caller wrote them
GroupByForwardedWithHaving ==
  \E c \in Chains :
    /\ Sent(c) /\ Observed(c) = DefaultContext
    /\ call[c].model = "User" /\ call[c].op = "groupBy"
    /\ {"by", "having"} \subseteq KeysOf(call[c].args)
    /\ Plain(Get(fwd[c].args, "where")) # Plain(CallerWhere(c))
    /\ Plain(Get(fwd[c].args, "having")) = Plain(Get(call[c].args, "having"))

\* every flag set in the context of store a is set in that of store b
FlagsKept(a, b) ==
  \A k \in {"hardDelete", "includeDeleted"} :
    getSoftDeleteContext(a)[k] => getSoftDeleteContext(b)[k]

\* C27: down one chain the flags only grow: each transaction callback runs
\* under at least the flags of the one around it, and a call under at least
\* the flags of the callback it is made in, whichever view it is made
\* through. So a call on the default client inside an override chain is
\* forwarded unscoped, and a delete through withDeleted() inside a hard-delete
\* chain is forwarded as the physical delete.
FlagsOnlyGrowDownTheChain ==
  \A c \in Chains :
    /\ \A i \in DOMAIN amb[c] :
         FlagsKept(IF i = 1 THEN NoStore ELSE amb[c][i - 1].store, amb[c][i].store)
    /\ pc[c] # "idle" =>
         /\ FlagsKept(Ambient(c), call[c].store)
         /\ (getSoftDeleteContext(Ambient(c)).hardDelete
               /\ call[c].op \in REMOVE_OPERATIONS) => call[c].q.op = call[c].op
         /\ (getSoftDeleteContext(Ambient(c)).includeDeleted /\ Sent(c))
              => fwd[c].args = call[c].q.args

\* deleteMany through withDeleted() inside a transaction of the hard-delete
\* view has removed the users
WithDeletedInsideHardDeleteRemoved ==
  \E c \in Chains :
    /\ Answered(c) /\ call[c].via = <<"withDeleted">> /\ call[c].op = "deleteMany"
    /\ amb[c] # <<>> /\ amb[c][Len(amb[c])].via = <<"hardDelete">>
    /\ RowsOf(db, "User") = {}

\* C28: the update that replaces a delete / deleteMany of the default context
\* is not root-scoped. deleteMany answers every row the caller's filter
\* matches, soft-deleted before or not, and delete answers a row whenever
\* the filter matches one; each answered row is in the store with deletedAt
\* the time the forwarded data names, whatever deletedAt it had.
DefaultDeleteReachesDeletedRows ==
  [][\A c \in Chains :
       (Answering(c) /\ SoftDelete(c) /\ Observed(c) = DefaultContext
         /\ res'[c].error # "Engine") =>
         /\ fwd[c].op \notin ROOT_SCOPED_OPERATIONS
         /\ Plain(Get(fwd[c].args, "where")) = Plain(CallerWhere(c))
         /\ call[c].op = "deleteMany" => Ids(res'[c].rows) = Ids(CallerMatched(c))
         /\ (call[c].op = "delete" /\ CallerMatched(c) # {}) =>
              /\ res'[c].error = ""
              /\ Cardinality(res'[c].rows) = 1
              /\ Ids(res'[c].rows) \subseteq Ids(CallerMatched(c))
         /\ \A r \in res'[c].rows :
              /\ r \in db'
              /\ r.f[SOFT_DELETE_FIELD] = Get(Get(fwd[c].args, "data"), SOFT_DELETE_FIELD)]_vars

\* a default deleteMany of the user soft-deleted at time 1, made at time 2,
\* has counted that user and stamped it with time 2
DeletedUserDeletedAgain ==
  \E c \in Chains :
    /\ Answered(c) /\ Observed(c) = DefaultContext /\ call[c].op = "deleteMany"
    /\ CallerWhere(c) = ByEmail(2)
    /\ \E r \in res[c].rows : r.id = 2 /\ r.f[SOFT_DELETE_FIELD] = DateV(2)

\* the handle chain c has just written at the end of its list
Written(c) == batch'[c].items[Len(batch'[c].items)]
\* the call the hook receives for a handle, made by chain c
HandleCall(c, item) ==
  modelCall(item.model, item.op, item.args, CallStore(item.via, Ambient(c)), now)

\* C29: a call through a view is run by the engine in the step that makes
\* it, before any list it is put in is handed to $transaction: the store is
\* then the one the engine leaves (without the users, after deleteMany of the
\* hard-delete view where no post refers to one). And the step in which
\* $transaction rejects a list leaves the store as the calls of the list
\* made it.
ViewCallsRunWhenMade ==
  [][\A c \in Chains :
       /\ (Len(batch'[c].items) = Len(batch[c].items) + 1 /\ Written(c).via # <<>>) =>
            /\ db' = EngineRun(db, Written(c).model, HandleCall(c, Written(c)).op,
                               allOperations(Written(c).model, HandleCall(c, Written(c)).op,
                                             HandleCall(c, Written(c)).args,
                                             CallStore(Written(c).via, Ambient(c)))).store
            /\ (Written(c).via = <<"hardDelete">> /\ Written(c).op = "deleteMany"
                  /\ RowsOf(db, "Post") = {})
                 => RowsOf(db', Written(c).model) = {}
       /\ (batch[c].stage = "open" /\ batch'[c].stage = "done" /\ batch'[c].error # "")
            => db' = db]_vars

\* the list holding deleteMany of the hard-delete view has been rejected and
\* the users are gone from the store
RejectedAfterHardDelete ==
  \E c \in Chains :
    /\ batch[c].stage = "done" /\ batch[c].error = "Prisma Client promises"
    /\ \E i \in DOMAIN batch[c].items :
         batch[c].items[i].via = <<"hardDelete">> /\ batch[c].items[i].op = "deleteMany"
    /\ RowsOf(db, "User") = {}

\* the flags the wrappers of a cache run their function members under
FlagsOf(kind) ==
  IF kind = "withDeleted" THEN ("includeDeleted" :> TRUE)
  ELSE ("hardDelete" :> TRUE) @@ ("includeDeleted" :> TRUE)

\* C30: every wrapper of the withDeleted cache runs its function members
\* under includeDeleted alone merged over the current context, every wrapper
\* of the hardDelete cache under hardDelete and includeDeleted; the wrapper an
\* entry point hands out is of that entry point's cache, whatever object the
\* entry point was read from, so hardDelete().withDeleted() is the
\* withDeleted view of the same client and sets no hardDelete.
WrapperFlagsFixedByCache ==
  /\ \A i \in DOMAIN views.made : views.made[i].context = FlagsOf(views.made[i].cache)
  /\ \A k \in ViewKinds : \A t \in DOMAIN views.cache[k] :
       views.made[views.cache[k][t]].cache = k /\ views.made[views.cache[k][t]].target = t
  /\ \A c \in Chains :
       /\ views.ref[c] # 0 =>
            /\ views.made[views.ref[c]].cache = views.asked[c]
            /\ views.made[views.ref[c]].target \in {Client, Member(Client)}
       /\ (pc[c] # "idle" /\ views.ref[c] # 0) =>
            /\ Observed(c).includeDeleted
            /\ Observed(c).hardDelete
                 <=> (views.asked[c] = "hardDelete"
                       \/ getSoftDeleteContext(Ambient(c)).hardDelete)

\* having called hardDelete() and then withDeleted() on what it gave, the
\* chain counts through the withDeleted view, which deletes nothing physically
CountedThroughWithDeletedOfHardDelete ==
  \E c \in Chains :
    /\ Answered(c) /\ amb[c] = <<>>
    /\ Len(views.made) >= 2 /\ views.made[1].cache = "hardDelete"
    /\ views.ref[c] # 0 /\ views.asked[c] = "withDeleted"
    /\ ~Observed(c).hardDelete /\ Observed(c).includeDeleted
====
